---- MODULE Spec2Model ----
(***************************************************************************)
(* The PoE/LLDP suspect-port detection of the CATALYST scripts:            *)
(*   python_code/AP_HUNT/ap_hunter.py          (SSH variant)               *)
(*   python_code/AP_HUNT_API/ap_hunter_dnac.py (Command Runner variant)    *)
(* A Python str is a sequence of one-character strings, so that slicing,   *)
(* regular expressions and case conversion are computed character by       *)
(* character, as the interpreter does.                                     *)
(***************************************************************************)
EXTENDS Integers, Sequences, FiniteSets, TLC

VARIABLES
    script,      \* which script runs: "ap_hunter" or "ap_hunter_dnac"
    pc,          \* position of the run
    name,        \* norm_intf: the argument
    normed,      \* norm_intf(name)
    renormed,    \* norm_intf(norm_intf(name))
    output,      \* parse_poe_on: the argument
    parsed,      \* parse_poe_on(output): [raised, val]
    powered,     \* the switch: ports that deliver power
    neighbors,   \* the switch: ports with an LLDP neighbour
    poe_raw,     \* text of "show power inline"
    lldp_raw,    \* text of "show lldp neighbors"
    poe_on,      \* result["poe_on"]
    lldp_ports,  \* result["lldp_ports"]
    suspects,    \* sorted(poe_on - lldp_ports)
    rows,        \* rows of <host>_suspects.csv below the header
    error,       \* the exception raised by a step, "" when none
    workers,     \* main: args.workers, the size of the thread pool
    texts,       \* main: per host, the two texts its switch answers
    wpc,         \* per host, the position of its process_switch call
    result,      \* per host, the result dict of process_switch
    files,       \* the files written below args.out: path and writer
    combined,    \* main: the list combined
    errors,      \* main: the list errors
    collected,   \* main: the futures as_completed has yielded
    combined_csv, \* combined_all_suspects.csv: written or not, and its rows
    controller,  \* polling: what the controller does with the task
    response,    \* polling: the last answer to GET task
    waited,      \* polling: seconds slept so far
    file_id,     \* polling: file_id
    clock,       \* waiting: time.time()
    t0,          \* waiting: time.time() when the wait began
    timeout_s,   \* waiting: the seconds the caller allows
    last,        \* waiting: the record the last poll fetched
    returned,    \* waiting: the value returned
    raised,      \* waiting: the exception that ended the call, "" when none
    gets,        \* waiting: the GET requests sent so far
    token,       \* DNACClient: self._token
    token_ts,    \* DNACClient: self._token_ts
    attempt,     \* DNACClient: the attempt of _request_token under way, 0 when none
    auths,       \* DNACClient: the authentication requests sent so far
    headers,     \* DNACClient: the headers of the request under way or last sent
    inventory,   \* paginate: the ordered list the server holds
    params,      \* paginate: the caller's params
    query,       \* paginate: the local params, a copy without "limit"
    limit,       \* paginate: limit
    offset,      \* paginate: offset
    items,       \* paginate: items
    asked,       \* paginate: the page_params of the requests sent, in order
    snapshots,   \* config drift: per stamp, the text of <stamp>.cfg in dev_dir
    diffs,       \* config drift: per stamp, the text of <stamp>.diff in dev_dir
    printed,     \* config drift: per run, its stamp, the cfg fetched, the status
    device_ids,  \* ap_hunter_dnac.main: device_ids
    batch_size,  \* ap_hunter_dnac.main: args.batch_size
    batch_index, \* ap_hunter_dnac.main: batch_index, 0 before the loop
    submitted,   \* ap_hunter_dnac.main: the batches handed to command_runner
    submit_resp, \* cc_command_runner: the "response" of the submit response
    read_url     \* cc_command_runner: read_url

vars == <<script, pc, name, normed, renormed, output, parsed, powered,
          neighbors, poe_raw, lldp_raw, poe_on, lldp_ports, suspects, rows, error,
          workers, texts, wpc, result, files, combined, errors, collected,
          combined_csv, controller, response, waited, file_id,
          clock, t0, timeout_s, last, returned, raised, gets,
          token, token_ts, attempt, auths, headers,
          inventory, params, query, limit, offset, items, asked,
          snapshots, diffs, printed,
          device_ids, batch_size, batch_index, submitted,
          submit_resp, read_url>>

normVars == <<name, normed, renormed>>
parseVars == <<output, parsed>>
switchVars == <<powered, neighbors, poe_raw, lldp_raw, poe_on, lldp_ports,
                suspects, rows, error>>

mainVars == <<workers, texts, wpc, result, files, combined, errors, collected,
              combined_csv>>
pollVars == <<controller, response, waited, file_id>>
waitVars == <<clock, t0, timeout_s, last, returned, raised, gets>>
tokenVars == <<token, token_ts, attempt, auths, headers>>
pageVars == <<inventory, params, query, limit, offset, items, asked>>
driftVars == <<snapshots, diffs, printed>>
batchVars == <<device_ids, batch_size, batch_index, submitted>>
runnerVars == <<submit_resp, read_url>>
laterVars == <<waitVars, tokenVars, pageVars, driftVars, batchVars, runnerVars>>
earlierVars == <<normVars, parseVars, switchVars, mainVars, pollVars>>
besideWait == <<earlierVars, tokenVars, pageVars, driftVars, batchVars, runnerVars>>
besideToken == <<earlierVars, pageVars, driftVars, batchVars, runnerVars>>
besidePage == <<earlierVars, waitVars, tokenVars, driftVars, batchVars, runnerVars>>
besideDrift == <<earlierVars, waitVars, tokenVars, pageVars, batchVars, runnerVars>>
besideRunner == <<earlierVars, tokenVars, pageVars, driftVars, batchVars>>
\* main of ap_hunter_dnac.py works on files, combined, combined_csv and raised
besideBatch == <<normVars, parseVars, switchVars, pollVars, tokenVars, pageVars,
                 driftVars, runnerVars, workers, texts, wpc, result, errors, collected,
                 clock, t0, timeout_s, last, returned, gets>>

Scripts == {"ap_hunter", "ap_hunter_dnac"}

-----------------------------------------------------------------------------
(* Characters                                                              *)

UpperSeq == <<"A","B","C","D","E","F","G","H","I","J","K","L","M",
              "N","O","P","Q","R","S","T","U","V","W","X","Y","Z">>
LowerSeq == <<"a","b","c","d","e","f","g","h","i","j","k","l","m",
              "n","o","p","q","r","s","t","u","v","w","x","y","z">>
DigitSeq == <<"0","1","2","3","4","5","6","7","8","9">>

UpperSet == {UpperSeq[i] : i \in DOMAIN UpperSeq}
LowerSet == {LowerSeq[i] : i \in DOMAIN LowerSeq}
DigitSet == {DigitSeq[i] : i \in DOMAIN DigitSeq}

AlphaSet == UpperSet \cup LowerSet
SpaceSet == {" ", "\t", "\n", "\r"}
WordSet == AlphaSet \cup DigitSet \cup {"_"}

\* [A-Za-z]
IsAlpha(c) == c \in AlphaSet
\* \d
IsDigit(c) == c \in DigitSet
\* \s, and the characters str.strip() removes
IsSpace(c) == c \in SpaceSet
\* \w, the class that decides \b
IsWord(c) == c \in WordSet

\* str.upper() and str.lower() of one letter
UpperOf == [c \in LowerSet |-> UpperSeq[CHOOSE i \in DOMAIN LowerSeq : LowerSeq[i] = c]]
LowerOf == [c \in UpperSet |-> LowerSeq[CHOOSE i \in DOMAIN UpperSeq : UpperSeq[i] = c]]

ToUpper(c) == IF c \in LowerSet THEN UpperOf[c] ELSE c
ToLower(c) == IF c \in UpperSet THEN LowerOf[c] ELSE c

\* ord(c), the code point that orders str values
OrdOf ==
    [c \in AlphaSet \cup DigitSet |->
        IF c \in UpperSet THEN 64 + (CHOOSE i \in DOMAIN UpperSeq : UpperSeq[i] = c)
        ELSE IF c \in LowerSet THEN 96 + (CHOOSE i \in DOMAIN LowerSeq : LowerSeq[i] = c)
        ELSE 47 + (CHOOSE i \in DOMAIN DigitSeq : DigitSeq[i] = c)]

Ord(c) ==
    IF c \in DOMAIN OrdOf THEN OrdOf[c]
    ELSE CASE c = "\t" -> 9 [] c = "\n" -> 10 [] c = "\r" -> 13 [] c = " " -> 32
           [] c = "(" -> 40 [] c = ")" -> 41 [] c = "," -> 44 [] c = "-" -> 45
           [] c = "." -> 46 [] c = "/" -> 47 [] c = ":" -> 58 [] c = "=" -> 61
           [] c = "_" -> 95

SetMin(S) == CHOOSE x \in S : \A y \in S : x <= y
SetMax(S) == CHOOSE x \in S : \A y \in S : y <= x

-----------------------------------------------------------------------------
(* str operations                                                          *)

\* Python's None: no str, every element of a str being one character
None == <<"<None>">>

\* "not x" for x a str or None
Falsy(x) == x = None \/ x = <<>>

\* s[i:] with i counted from 0
SliceFrom(s, i) == IF i >= Len(s) THEN <<>> ELSE SubSeq(s, i + 1, Len(s))
\* s[:j]
SliceTo(s, j) == IF j >= Len(s) THEN s ELSE SubSeq(s, 1, j)

\* the first index >= p of s whose character is not in cls, Len(s) + 1
\* when there is none
SkipClass(s, p, cls) ==
    CHOOSE i \in p..(Len(s) + 1) :
        /\ i = Len(s) + 1 \/ s[i] \notin cls
        /\ \A j \in p..(i - 1) : s[j] \in cls

\* the last index of s whose character is not in cls, 0 when there is none
LastNotIn(s, cls) ==
    Len(s) - (CHOOSE k \in 0..Len(s) :
                /\ k = Len(s) \/ s[Len(s) - k] \notin cls
                /\ \A j \in 0..(k - 1) : s[Len(s) - j] \in cls)

\* the first index >= p of s that holds no white space
SkipSpace(s, p) == SkipClass(s, p, SpaceSet)

strip(s) ==
    LET a == SkipSpace(s, 1)
    IN  IF a > Len(s) THEN <<>> ELSE SubSeq(s, a, LastNotIn(s, SpaceSet))

rstrip(s, chars) == SliceTo(s, LastNotIn(s, chars))

lower(s) == [i \in 1..Len(s) |-> ToLower(s[i])]

capitalize(s) == [i \in 1..Len(s) |-> IF i = 1 THEN ToUpper(s[i]) ELSE ToLower(s[i])]

startswith(s, p) == Len(p) <= Len(s) /\ SubSeq(s, 1, Len(p)) = p

\* re.sub(r"\s+", "", s)
RemoveSpace(s) == SelectSeq(s, LAMBDA c : ~IsSpace(c))

-----------------------------------------------------------------------------
(* Interface normalization                                                 *)

\* The dict in insertion order, which is the order the for loop visits it.
SHORTEN_MAP == <<
    [long  |-> <<"G","i","g","a","b","i","t","E","t","h","e","r","n","e","t">>,
     short |-> <<"G","i">>],
    [long  |-> <<"T","e","n","G","i","g","a","b","i","t","E","t","h","e","r","n","e","t">>,
     short |-> <<"T","e">>],
    [long  |-> <<"T","w","e","n","t","y","F","i","v","e","G","i","g","E">>,
     short |-> <<"T","w","e">>],
    [long  |-> <<"F","o","r","t","y","G","i","g","a","b","i","t","E","t","h","e","r","n","e","t">>,
     short |-> <<"F","o">>],
    [long  |-> <<"H","u","n","d","r","e","d","G","i","g","E">>,
     short |-> <<"H","u">>],
    [long  |-> <<"F","a","s","t","E","t","h","e","r","n","e","t">>,
     short |-> <<"F","a">>],
    [long  |-> <<"T","w","o","G","i","g","a","b","i","t","E","t","h","e","r","n","e","t">>,
     short |-> <<"T","w">>],
    [long  |-> <<"A","p","p","G","i","g","a","b","i","t","E","t","h","e","r","n","e","t">>,
     short |-> <<"A","p">>],
    [long  |-> <<"E","t","h","e","r","n","e","t">>,
     short |-> <<"E","t","h">>] >>

\* for long, short in SHORTEN_MAP.items(): if s.startswith(long): return ...
\* and the fallback "return s"
Shorten(s) ==
    LET hits == {i \in DOMAIN SHORTEN_MAP : startswith(s, SHORTEN_MAP[i].long)}
    IN  IF hits = {} THEN s
        ELSE LET e == SHORTEN_MAP[SetMin(hits)]
             IN  e.short \o SliceFrom(s, Len(e.long))

\* s = name.strip(); s = s.rstrip(",:"); s = re.sub(r"\s+", "", s)
Clean(nm) == RemoveSpace(rstrip(strip(nm), {",", ":"}))

\* re.match(r"^[A-Za-z]{1,3}\d", s)
LooksShort(s) ==
    \E k \in 1..3 :
        /\ k < Len(s)
        /\ \A i \in 1..k : IsAlpha(s[i])
        /\ IsDigit(s[k + 1])

\* norm_intf with the short prefix put in upper case, as its docstring's
\* "uppercases final" would have it
norm_intf_upper(nm) ==
    IF Falsy(nm) THEN <<>>
    ELSE LET s == Clean(nm)
         IN  IF LooksShort(s)
             THEN [i \in 1..Len(SliceTo(s, 2)) |-> ToUpper(s[i])] \o SliceFrom(s, 2)
             ELSE Shorten(s)

\* norm_intf of ap_hunter.py
norm_intf(nm) ==
    IF Falsy(nm) THEN <<>>
    ELSE LET s == Clean(nm)
         IN  IF LooksShort(s)
             THEN capitalize(SliceTo(s, 2)) \o SliceFrom(s, 2)
             ELSE Shorten(s)

\* re.match(r"^([A-Za-z]{1,3})(.+)$", s): the greedy prefix takes as many of
\* the leading letters as it can, up to three, leaving one character for (.+)
DnacPrefixLen(s) ==
    LET ks == {k \in 1..3 : k < Len(s) /\ \A i \in 1..k : IsAlpha(s[i])}
    IN  IF ks = {} THEN 0 ELSE SetMax(ks)

\* norm_intf of ap_hunter_dnac.py
norm_intf_dnac(nm) ==
    IF Falsy(nm) THEN <<>>
    ELSE LET s == Clean(nm)
             k == DnacPrefixLen(s)
             prefix == SliceTo(s, k)
             rest == SliceFrom(s, k)
         IN  IF k > 0 /\ Len(prefix) <= 3 /\ IsDigit(rest[1])
             THEN capitalize(SliceTo(prefix, 2)) \o rest
             ELSE Shorten(s)

NormIntf(sc, nm) == IF sc = "ap_hunter" THEN norm_intf(nm) ELSE norm_intf_dnac(nm)

-----------------------------------------------------------------------------
(* Lines and regular-expression pieces                                     *)

\* the first index of s that holds a line boundary, Len(s) + 1 when none does
LineEnd(s) ==
    CHOOSE i \in 1..(Len(s) + 1) :
        /\ i = Len(s) + 1 \/ s[i] \in {"\n", "\r"}
        /\ \A j \in 1..(i - 1) : s[j] \notin {"\n", "\r"}

RECURSIVE splitlines(_)
\* str.splitlines(): the boundaries are \n, \r and \r\n; no last empty line
splitlines(s) ==
    IF s = <<>> THEN <<>>
    ELSE LET i == LineEnd(s)
             j == IF i < Len(s) /\ s[i] = "\r" /\ s[i + 1] = "\n" THEN i + 1 ELSE i
         IN  IF i > Len(s) THEN <<s>>
             ELSE <<SliceTo(s, i - 1)>> \o splitlines(SliceFrom(s, j))

\* line.strip().split()[0] for a line that is not blank
FirstToken(line) ==
    LET t == strip(line)
        sp == {i \in 1..Len(t) : IsSpace(t[i])}
    IN  IF sp = {} THEN t ELSE SliceTo(t, SetMin(sp) - 1)

\* [A-Za-z0-9/._-] and, in ap_hunter_dnac.py, [A-Za-z0-9/._:-]
IntfChars == UpperSet \cup LowerSet \cup DigitSet \cup {"/", ".", "_", "-"}
IntfCharsDnac == IntfChars \cup {":"}

\* \b at the gap before s[p] (p = Len(s) + 1: the end of s)
WordBoundary(s, p) ==
    (p > 1 /\ IsWord(s[p - 1])) # (p <= Len(s) /\ IsWord(s[p]))

\* the literal w, case-insensitively, at s[p..]
LiteralAt(s, p, w) ==
    /\ p >= 1
    /\ p + Len(w) - 1 <= Len(s)
    /\ \A i \in 1..Len(w) : ToLower(s[p + i - 1]) = ToLower(w[i])

-----------------------------------------------------------------------------
(* parse_poe_on                                                            *)

\* the pattern without its two \b: "on" inside a longer word matches too
PoeIntfEndsNoBoundary(line, cls) ==
    {e \in 2..(SkipClass(line, 2, cls) - 1) :
        /\ IsAlpha(line[1])
        /\ \E w \in (e + 1)..(SkipSpace(line, e + 1) - 1) :
            \E k \in (w + 1)..(Len(line) - 1) : LiteralAt(line, k, <<"o", "n">>)}

\* ^(?P<intf>[A-Za-z][cls]+)\s+.*\b(on)\b with re.IGNORECASE: the ends e of
\* the group intf for which the rest of the pattern matches; e lies in the
\* run of cls characters, w in the run of white space behind e, and the
\* word "on" starts at some k behind w
PoeIntfEnds(line, cls) ==
    {e \in 2..(SkipClass(line, 2, cls) - 1) :
        /\ IsAlpha(line[1])
        /\ \E w \in (e + 1)..(SkipSpace(line, e + 1) - 1) :
            \E k \in (w + 1)..(Len(line) - 1) :
                /\ LiteralAt(line, k, <<"o", "n">>)
                /\ WordBoundary(line, k)
                /\ WordBoundary(line, k + 2)
                /\ \A i \in (w + 1)..(k - 1) : line[i] # "\n"}

\* re.match(...) is not None
PoeMatches(line, cls) == PoeIntfEnds(line, cls) # {}

\* m.group("intf"): the group is greedy, the longest end is tried first
PoeIntf(line, cls) == SliceTo(line, SetMax(PoeIntfEnds(line, cls)))

\* the tuple given to line.lower().startswith(...) in ap_hunter.py
PoeHeaders == {
    <<"i","n","t","e","r","f","a","c","e">>,
    <<"m","o","d","u","l","e">>,
    <<"d","e","v","i","c","e">>,
    <<"s","y","s","t","e","m">>,
    <<"a","v","a","i","l","a","b","l","e">>,
    <<"m","a","x">>,
    <<"a","d","m","i","n">>,
    <<"-","-","-","-">> }

\* the alternatives of ^(Interface|Port|...|Power) in ap_hunter_dnac.py
PoeHeadersDnac == {
    <<"I","n","t","e","r","f","a","c","e">>,
    <<"P","o","r","t">>,
    <<"M","o","d","u","l","e">>,
    <<"A","v","a","i","l","a","b","l","e">>,
    <<"M","a","x">>,
    <<"A","d","m","i","n">>,
    <<"-","-","-","-","-">>,
    <<"P","o","w","e","r">> }

\* the test that skips a stripped line in ap_hunter.py
PoeSkip(line) ==
    line = <<>> \/ LET low == lower(line) IN \E h \in PoeHeaders : startswith(low, h)

\* the two tests that skip a stripped line in ap_hunter_dnac.py
PoeSkipDnac(ln) ==
    ln = <<>> \/ \E h \in PoeHeadersDnac : LiteralAt(ln, 1, h)

\* the stripped lines of a text, as a set of indexed lines
StrippedLines(out) ==
    LET lines == splitlines(out) IN {strip(lines[i]) : i \in 1..Len(lines)}

\* parse_poe_on of ap_hunter.py; None has no splitlines
parse_poe_on(out) ==
    IF out = None THEN [raised |-> "AttributeError", val |-> {}]
    ELSE [raised |-> "",
          val |-> {norm_intf(PoeIntf(line, IntfChars)) :
                     line \in {l \in StrippedLines(out) :
                                 ~PoeSkip(l) /\ PoeMatches(l, IntfChars)}}]

\* parse_poe_on of ap_hunter_dnac.py
parse_poe_on_dnac(out) ==
    IF Falsy(out) THEN [raised |-> "", val |-> {}]
    ELSE [raised |-> "",
          val |-> {norm_intf_dnac(PoeIntf(ln, IntfCharsDnac)) :
                     ln \in {l \in StrippedLines(out) :
                               ~PoeSkipDnac(l) /\ PoeMatches(l, IntfCharsDnac)}}]

ParsePoeOn(sc, out) == IF sc = "ap_hunter" THEN parse_poe_on(out) ELSE parse_poe_on_dnac(out)

-----------------------------------------------------------------------------
(* The LLDP parsers                                                        *)

\* Local\s+Intf\s*[delims]\s*([cls]+) matched at s[p..]: the group's bounds
\* <<first, last>>, or <<>> when the pattern does not match at p
DetailAt(s, p, delims, cls) ==
    LET a == p + 5
        b == SkipSpace(s, a)
        c == b + 4
        d == SkipSpace(s, c)
        f == SkipSpace(s, d + 1)
        g == SkipClass(s, f, cls)
    IN  IF /\ LiteralAt(s, p, <<"L", "o", "c", "a", "l">>)
           /\ b > a
           /\ LiteralAt(s, b, <<"I", "n", "t", "f">>)
           /\ d <= Len(s) /\ s[d] \in delims
           /\ g > f
        THEN <<f, g - 1>>
        ELSE <<>>

\* re.search(...): the leftmost place where the pattern matches
DetailHits(s, delims, cls) == {p \in 1..Len(s) : DetailAt(s, p, delims, cls) # <<>>}

\* m.group(1) of the search
DetailIntf(s, delims, cls) ==
    LET m == DetailAt(s, SetMin(DetailHits(s, delims, cls)), delims, cls)
    IN  SubSeq(s, m[1], m[2])

\* re.search(r"\bLocal\s+Intf\b", line, flags=re.IGNORECASE)
IsLldpHeader(line) ==
    \E p \in 1..Len(line) :
        LET a == p + 5
            b == SkipSpace(line, a)
        IN  /\ WordBoundary(line, p)
            /\ LiteralAt(line, p, <<"L", "o", "c", "a", "l">>)
            /\ b > a
            /\ LiteralAt(line, b, <<"I", "n", "t", "f">>)
            /\ WordBoundary(line, b + 4)

\* header_idx: the first header line, 0 standing for None
HeaderIdx(lines) ==
    LET hs == {i \in 1..Len(lines) : IsLldpHeader(lines[i])}
    IN  IF hs = {} THEN 0 ELSE SetMin(hs)

\* re.match(r"^-{3,}|={3,}", line) in ap_hunter.py
IsSeparator(line) ==
    startswith(line, <<"-", "-", "-">>) \/ startswith(line, <<"=", "=", "=">>)

\* re.match(r"^[=\-]{3,}\s*$", ln) in ap_hunter_dnac.py
IsSeparatorDnac(ln) ==
    LET e == SkipClass(ln, 1, {"=", "-"})
    IN  e > 3 /\ \A i \in e..Len(ln) : IsSpace(ln[i])

\* re.match(r"^[A-Za-z][cls]+$", first)
LooksLikeIntf(first, cls) ==
    /\ Len(first) >= 2
    /\ IsAlpha(first[1])
    /\ \A i \in 2..Len(first) : first[i] \in cls

\* the "detail" loop of ap_hunter.py over all lines
DetailPorts(lines) ==
    {norm_intf(DetailIntf(lines[i], {":"}, IntfChars)) :
        i \in {j \in 1..Len(lines) : DetailHits(lines[j], {":"}, IntfChars) # {}}}

\* the loop over lines[header_idx + 1:] of ap_hunter.py
TablePorts(lines) ==
    LET h == HeaderIdx(lines)
    IN  IF h = 0 THEN {}
        ELSE {norm_intf(FirstToken(lines[i])) :
                i \in {j \in (h + 1)..Len(lines) :
                         /\ strip(lines[j]) # <<>>
                         /\ ~IsSeparator(lines[j])
                         /\ LooksLikeIntf(FirstToken(lines[j]), IntfChars)}}

\* parse_lldp_local_intf with the table read first, the detail lines only
\* when the table gives nothing
parse_lldp_table_first(out) ==
    IF out = None THEN [raised |-> "AttributeError", val |-> {}]
    ELSE LET lines == splitlines(out)
         IN  [raised |-> "",
              val |-> IF TablePorts(lines) # {} THEN TablePorts(lines)
                      ELSE DetailPorts(lines)]

\* parse_lldp_local_intf with the two forms united
parse_lldp_both(out) ==
    IF out = None THEN [raised |-> "AttributeError", val |-> {}]
    ELSE LET lines == splitlines(out)
         IN  [raised |-> "", val |-> DetailPorts(lines) \cup TablePorts(lines)]

\* parse_lldp_local_intf of ap_hunter.py: the detail lines win, the table
\* is read only when there is none
parse_lldp_local_intf(out) ==
    IF out = None THEN [raised |-> "AttributeError", val |-> {}]
    ELSE LET lines == splitlines(out)
         IN  [raised |-> "",
              val |-> IF DetailPorts(lines) # {} THEN DetailPorts(lines)
                      ELSE TablePorts(lines)]

\* the summary table loop of ap_hunter_dnac.py
TablePortsDnac(lines) ==
    LET h == HeaderIdx(lines)
    IN  IF h = 0 THEN {}
        ELSE {norm_intf_dnac(FirstToken(lines[i])) :
                i \in {j \in (h + 1)..Len(lines) :
                         /\ strip(lines[j]) # <<>>
                         /\ ~IsSeparatorDnac(lines[j])
                         /\ LooksLikeIntf(FirstToken(lines[j]), IntfCharsDnac)}}

\* the detail loop of ap_hunter_dnac.py
DetailPortsDnac(lines) ==
    {norm_intf_dnac(DetailIntf(lines[i], {":", "="}, IntfCharsDnac)) :
        i \in {j \in 1..Len(lines) : DetailHits(lines[j], {":", "="}, IntfCharsDnac) # {}}}

\* parse_lldp_ports with the table read only when no detail line matches
parse_lldp_ports_detail_wins(out) ==
    IF Falsy(out) THEN [raised |-> "", val |-> {}]
    ELSE LET lines == splitlines(out)
         IN  [raised |-> "",
              val |-> IF DetailPortsDnac(lines) # {} THEN DetailPortsDnac(lines)
                      ELSE TablePortsDnac(lines)]

\* parse_lldp_ports of ap_hunter_dnac.py: both forms, united
parse_lldp_ports(out) ==
    IF Falsy(out) THEN [raised |-> "", val |-> {}]
    ELSE LET lines == splitlines(out)
         IN  [raised |-> "", val |-> TablePortsDnac(lines) \cup DetailPortsDnac(lines)]

ParseLldp(sc, out) ==
    IF sc = "ap_hunter" THEN parse_lldp_local_intf(out) ELSE parse_lldp_ports(out)

-----------------------------------------------------------------------------
(* The correlation of one switch                                           *)

\* a < b for two str: the first differing code point decides, a proper
\* prefix is smaller
StrLess(a, b) ==
    \E k \in 1..(Len(a) + 1) :
        /\ k <= Len(b)
        /\ \A i \in 1..(k - 1) : a[i] = b[i]
        /\ (k = Len(a) + 1 \/ Ord(a[k]) < Ord(b[k]))

RECURSIVE sorted(_)
\* sorted(S) for a set of str
sorted(S) ==
    IF S = {} THEN <<>>
    ELSE LET m == CHOOSE x \in S : \A y \in S \ {x} : StrLess(x, y)
         IN  <<m>> \o sorted(S \ {m})

\* the set as a list in an order that is not the sorted one
Unsorted(S) == LET l == sorted(S) IN [i \in 1..Len(l) |-> l[Len(l) + 1 - i]]

\* suspects without the sort: the set's own iteration order
SuspectsUnsorted(poe, lldp) == Unsorted(poe \ lldp)

\* suspects = sorted(poe_on - lldp_ports)
Suspects(poe, lldp) == sorted(poe \ lldp)

REASON == "PoE on, no LLDP neighbor"

\* the rows written below the header of <host>_suspects.csv
CsvRows(host, ifaces) ==
    [i \in 1..Len(ifaces) |-> [switch |-> host, interface |-> ifaces[i], reason |-> REASON]]

-----------------------------------------------------------------------------
(* Values of the variables a run does not use                              *)

NoResult == [raised |-> "", val |-> {}]

NormIdle == name = None /\ normed = None /\ renormed = None
ParseIdle == output = None /\ parsed = NoResult
SwitchIdle ==
    /\ powered = {} /\ neighbors = {}
    /\ poe_raw = None /\ lldp_raw = None
    /\ poe_on = {} /\ lldp_ports = {}
    /\ suspects = <<>> /\ rows = <<>> /\ error = ""
\* a file that has not been written
NoFile == [written |-> FALSE, rows |-> <<>>]

MainIdle ==
    /\ workers = 0 /\ texts = <<>> /\ wpc = <<>> /\ result = <<>>
    /\ files = {} /\ combined = <<>> /\ errors = <<>> /\ collected = {}
    /\ combined_csv = NoFile
PollIdle == controller = "" /\ response = <<>> /\ waited = 0 /\ file_id = None

\* no record fetched, nothing returned
NoRecord == [fetched |-> FALSE]
WaitIdle ==
    /\ clock = 0 /\ t0 = 0 /\ timeout_s = 0
    /\ last = NoRecord /\ returned = NoRecord /\ raised = "" /\ gets = 0

\* self._token: Optional[str] = None, self._token_ts: float = 0
NoToken == [id |-> 0, issued |-> 0]
NoHeaders == [built |-> FALSE]
TokenIdle ==
    /\ token = NoToken /\ token_ts = 0 /\ attempt = 0 /\ auths = 0
    /\ headers = NoHeaders

\* params: Optional[Dict[str, Any]] = None
NoParams == [given |-> FALSE, map |-> {}]
PageIdle ==
    /\ inventory = <<>> /\ params = NoParams /\ query = {} /\ limit = 0
    /\ offset = 0 /\ items = <<>> /\ asked = <<>>
DriftIdle == snapshots = <<>> /\ diffs = <<>> /\ printed = <<>>
BatchIdle ==
    device_ids = <<>> /\ batch_size = 0 /\ batch_index = 0 /\ submitted = <<>>
RunnerIdle == submit_resp = NoRecord /\ read_url = None
LaterIdle == WaitIdle /\ TokenIdle /\ PageIdle /\ DriftIdle /\ BatchIdle /\ RunnerIdle
EarlierIdle == NormIdle /\ ParseIdle /\ SwitchIdle /\ MainIdle /\ PollIdle
BesideWaitIdle == EarlierIdle /\ TokenIdle /\ PageIdle /\ DriftIdle /\ BatchIdle /\ RunnerIdle
BesideTokenIdle == EarlierIdle /\ PageIdle /\ DriftIdle /\ BatchIdle /\ RunnerIdle
BesidePageIdle == EarlierIdle /\ WaitIdle /\ TokenIdle /\ DriftIdle /\ BatchIdle /\ RunnerIdle
BesideDriftIdle == EarlierIdle /\ WaitIdle /\ TokenIdle /\ PageIdle /\ BatchIdle /\ RunnerIdle
BesideRunnerIdle == EarlierIdle /\ TokenIdle /\ PageIdle /\ DriftIdle /\ BatchIdle
BesideBatchIdle ==
    /\ NormIdle /\ ParseIdle /\ SwitchIdle /\ PollIdle /\ TokenIdle /\ PageIdle /\ DriftIdle
    /\ RunnerIdle
    /\ workers = 0 /\ texts = <<>> /\ wpc = <<>> /\ result = <<>>
    /\ errors = <<>> /\ collected = {}
    /\ clock = 0 /\ t0 = 0 /\ timeout_s = 0 /\ last = NoRecord /\ returned = NoRecord
    /\ gets = 0

-----------------------------------------------------------------------------
(* norm_intf applied once and twice to one argument                        *)

MaxSuffixLen == 3

\* all sequences over S of length at most n
SeqsUpTo(S, n) == UNION {[1..k -> S] : k \in 0..n}

\* the spellings of s in every mix of upper and lower case
CaseVariants(s) ==
    {[i \in 1..Len(s) |-> IF i \in U THEN ToUpper(s[i]) ELSE ToLower(s[i])] :
        U \in SUBSET (1..Len(s))}

LongNames == {SHORTEN_MAP[i].long : i \in DOMAIN SHORTEN_MAP}
ShortNames == {SHORTEN_MAP[i].short : i \in DOMAIN SHORTEN_MAP}

NormPrefixes ==
    LongNames \cup UNION {CaseVariants(s) : s \in ShortNames}
    \cup {<<>>, <<"G">>, <<"V","l","a","n">>, <<"P","o","r","t">>}

NormSuffixes == SeqsUpTo({"1", "/"}, MaxSuffixLen)

\* what surrounds the name in a CLI column: <<before, after>>
NormDecor == {
    << <<>>, <<>> >>,
    << <<" ">>, <<" ">> >>,
    << <<>>, <<",">> >>,
    << <<>>, <<":">> >>,
    << <<>>, <<":", " ", ",">> >> }

NormInputs ==
    {None} \cup {d[1] \o p \o r \o d[2] : d \in NormDecor, p \in NormPrefixes, r \in NormSuffixes}

InitNorm ==
    /\ script \in Scripts
    /\ pc = "start"
    /\ name \in NormInputs
    /\ normed = None
    /\ renormed = None
    /\ ParseIdle
    /\ SwitchIdle
    /\ MainIdle
    /\ PollIdle
    /\ LaterIdle

NormOnce ==
    /\ pc = "start"
    /\ normed' = NormIntf(script, name)
    /\ pc' = "once"
    /\ UNCHANGED <<script, name, renormed, parseVars, switchVars, mainVars, pollVars, laterVars>>

NormTwice ==
    /\ pc = "once"
    /\ renormed' = NormIntf(script, normed)
    /\ pc' = "twice"
    /\ UNCHANGED <<script, name, normed, parseVars, switchVars, mainVars, pollVars, laterVars>>

NextNorm == NormOnce \/ NormTwice

SpecNorm == InitNorm /\ [][NextNorm]_vars

-----------------------------------------------------------------------------
(* parse_poe_on applied to a text of "show power inline"                   *)

MaxPoeLines == 2

\* lines a switch prints, and lines that try the parser
PoeLineSeq == <<
    \* 'Interface Admin Oper Power on'
    <<"I","n","t","e","r","f","a","c","e"," ","A","d","m","i","n"," ","O","p","e","r"," ","P","o","w","e","r"," ","o","n">>,
    \* 'Module on'
    <<"M","o","d","u","l","e"," ","o","n">>,
    \* 'Device on'
    <<"D","e","v","i","c","e"," ","o","n">>,
    \* 'System on'
    <<"S","y","s","t","e","m"," ","o","n">>,
    \* 'Available:740 on'
    <<"A","v","a","i","l","a","b","l","e",":","7","4","0"," ","o","n">>,
    \* 'Max on'
    <<"M","a","x"," ","o","n">>,
    \* 'Admin on'
    <<"A","d","m","i","n"," ","o","n">>,
    \* 'Power on'
    <<"P","o","w","e","r"," ","o","n">>,
    \* 'POWER ON'
    <<"P","O","W","E","R"," ","O","N">>,
    \* '---- on'
    <<"-","-","-","-"," ","o","n">>,
    \* '--- on'
    <<"-","-","-"," ","o","n">>,
    \* 'Port on'
    <<"P","o","r","t"," ","o","n">>,
    \* 'Gi1/0/1 auto on 15.4'
    <<"G","i","1","/","0","/","1"," ","a","u","t","o"," ","o","n"," ","1","5",".","4">>,
    \* '  gi1/0/1\tstatic ON'
    <<" "," ","g","i","1","/","0","/","1","\t","s","t","a","t","i","c"," ","O","N">>,
    \* 'GigabitEthernet1/0/2 auto on'
    <<"G","i","g","a","b","i","t","E","t","h","e","r","n","e","t","1","/","0","/","2"," ","a","u","t","o"," ","o","n">>,
    \* 'Gi1/0/3 auto off 0.0'
    <<"G","i","1","/","0","/","3"," ","a","u","t","o"," ","o","f","f"," ","0",".","0">>,
    \* 'Gi1/0/4 none'
    <<"G","i","1","/","0","/","4"," ","n","o","n","e">>,
    \* 'Gi1/0/5 x.on'
    <<"G","i","1","/","0","/","5"," ","x",".","o","n">>,
    \* 'Gi1/0/6 on_x'
    <<"G","i","1","/","0","/","6"," ","o","n","_","x">>,
    \* 'Gi1/0/7 on-line'
    <<"G","i","1","/","0","/","7"," ","o","n","-","l","i","n","e">>,
    \* 'Gi1/0/8on'
    <<"G","i","1","/","0","/","8","o","n">>,
    \* 'G on'
    <<"G"," ","o","n">>,
    \* '1Gi on'
    <<"1","G","i"," ","o","n">>,
    \* 'Gi1:2 on'
    <<"G","i","1",":","2"," ","o","n">>,
    \* 'Twe1/0/9 auto on'
    <<"T","w","e","1","/","0","/","9"," ","a","u","t","o"," ","o","n">>,
    \* 'on on'
    <<"o","n"," ","o","n">>,
    \* 'Gi1/0/10 2on'
    <<"G","i","1","/","0","/","1","0"," ","2","o","n">>,
    \* 'Gi1/0/11 faulty only'
    <<"G","i","1","/","0","/","1","1"," ","f","a","u","l","t","y"," ","o","n","l","y">>,
    \* ''
    <<>>,
    \* 'Te1/1/1 auto on 30.0 on'
    <<"T","e","1","/","1","/","1"," ","a","u","t","o"," ","o","n"," ","3","0",".","0"," ","o","n">>,
    \* 'Gi1/0/12, on'
    <<"G","i","1","/","0","/","1","2",","," ","o","n">>,
    \* 'Fa0/1 (on)'
    <<"F","a","0","/","1"," ","(","o","n",")">> >>

RECURSIVE JoinLines(_, _)
\* "\n".join of the lines of seq whose indices are in pick, in order
JoinLines(seq, pick) ==
    IF pick = {} THEN <<>>
    ELSE LET i == SetMin(pick)
         IN  IF pick = {i} THEN seq[i]
             ELSE seq[i] \o <<"\n">> \o JoinLines(seq, pick \ {i})

RECURSIVE SubsetsUpTo(_, _)
\* the subsets of S with at most n elements
SubsetsUpTo(S, n) ==
    IF n = 0 THEN {{}}
    ELSE LET prev == SubsetsUpTo(S, n - 1)
         IN  prev \cup {q \cup {x} : q \in prev, x \in S}

PoeTexts ==
    {None} \cup
    {JoinLines(PoeLineSeq, pick) : pick \in SubsetsUpTo(DOMAIN PoeLineSeq, MaxPoeLines)}

InitPoe ==
    /\ script \in Scripts
    /\ pc = "start"
    /\ output \in PoeTexts
    /\ parsed = NoResult
    /\ NormIdle
    /\ SwitchIdle
    /\ MainIdle
    /\ PollIdle
    /\ LaterIdle

ParsePoe ==
    /\ pc = "start"
    /\ parsed' = ParsePoeOn(script, output)
    /\ pc' = "parsed"
    /\ UNCHANGED <<script, output, normVars, switchVars, mainVars, pollVars, laterVars>>

NextPoe == ParsePoe

SpecPoe == InitPoe /\ [][NextPoe]_vars

-----------------------------------------------------------------------------
(* Claims about parse_poe_on, under SpecPoe                                *)

\* the header tokens of the PoE table
HeaderWords == {
    <<"i","n","t","e","r","f","a","c","e">>, <<"m","o","d","u","l","e">>,
    <<"d","e","v","i","c","e">>, <<"s","y","s","t","e","m">>,
    <<"a","v","a","i","l","a","b","l","e">>, <<"m","a","x">>,
    <<"a","d","m","i","n">>, <<"p","o","w","e","r">> }

\* a line that begins with a header token, in any case, or with a run of "-"
BeginsAsHeader(l) ==
    (\E h \in HeaderWords : LiteralAt(l, 1, h)) \/ (l # <<>> /\ l[1] = "-")

\* the lines of the text that are neither blank nor header or separator
DataLines(out) == {l \in StrippedLines(out) : l # <<>> /\ ~BeginsAsHeader(l)}

\* C8: parse_poe_on never adds an interface from a line that begins with a
\* header token (Interface, Module, Device, System, Available, Max, Admin,
\* Power) or a run of "-", even when the line holds the word "on": all it
\* returns comes from the other lines, in both scripts.
C8_HeaderLinesAddNothing ==
    (pc = "parsed" /\ output # None) =>
        parsed.val \subseteq {NormIntf(script, FirstToken(l)) : l \in DataLines(output)}

\* a letter followed by one or more letters, digits or / . _ -
IsIntfToken(t) ==
    /\ Len(t) >= 2
    /\ IsAlpha(t[1])
    /\ \A i \in 2..Len(t) : IsAlpha(t[i]) \/ IsDigit(t[i]) \/ t[i] \in {"/", ".", "_", "-"}

\* the word "on", in any letter case, standing alone at some index > a
HasWordOn(l, a) ==
    \E k \in (a + 1)..(Len(l) - 1) :
        /\ ToLower(l[k]) = "o" /\ ToLower(l[k + 1]) = "n"
        /\ (k = 1 \/ ~IsWord(l[k - 1]))
        /\ (k + 1 = Len(l) \/ ~IsWord(l[k + 2]))

\* the line starts with an interface token, then white space, then, later,
\* the standalone word "on"
ReportsOn(l) ==
    LET t == FirstToken(l)
    IN  IsIntfToken(t) /\ Len(l) > Len(t) /\ HasWordOn(l, Len(t) + 1)

\* C9: parse_poe_on of ap_hunter.py returns norm_intf(t) for exactly the
\* lines it does not skip that start with an interface token t, followed by
\* white space and, later, the standalone word "on" in any case; other lines
\* add nothing and raise nothing; duplicates collapse.
C9_PoeOnExactly ==
    (script = "ap_hunter" /\ pc = "parsed" /\ output # None) =>
        /\ parsed.raised = ""
        /\ parsed.val = {norm_intf(FirstToken(l)) :
                           l \in {x \in StrippedLines(output) : ~PoeSkip(x) /\ ReportsOn(x)}}

\* C9 happens: two lines report Gi1/0/1 as "on", one as "gi1/0/1 ... ON"
\* behind blanks, and the result holds the one name Gi1/0/1
C9_Witness ==
    /\ script = "ap_hunter"
    /\ pc = "parsed"
    /\ output = JoinLines(PoeLineSeq, {13, 14})
    /\ parsed.val = {<<"G", "i", "1", "/", "0", "/", "1">>}

-----------------------------------------------------------------------------
(* One switch: its two command outputs, parsed and correlated              *)

MaxPowered == 3
MaxNeighbors == 1

HOST == "sw1"

\* the ports of the switch in the order its tables list them, which is not
\* the order of their names: port 1/2 of every prefix family, and port 1/10
\* of the first, which sorts before 1/2 as a string and after it as a number
SwitchPortSeq ==
    [i \in DOMAIN SHORTEN_MAP |->
        [fam |-> Len(SHORTEN_MAP) + 1 - i, port |-> <<"1", "/", "2">>]]
    \o << [fam |-> 1, port |-> <<"1", "/", "1", "0">>] >>

SwitchPorts == {SwitchPortSeq[i] : i \in DOMAIN SwitchPortSeq}

LongSpelling(p) == SHORTEN_MAP[p.fam].long \o p.port
ShortSpelling(p) == SHORTEN_MAP[p.fam].short \o p.port

\* the spelling a table uses for the port p
Spelling(p, form) == IF form = "long" THEN LongSpelling(p) ELSE ShortSpelling(p)

RECURSIVE RenderRows(_, _, _, _)
\* one line per port of P from the i-th on, in the spelling form and
\* followed by tail
RenderRows(P, form, tail, i) ==
    IF i > Len(SwitchPortSeq) THEN <<>>
    ELSE (IF SwitchPortSeq[i] \in P
          THEN <<"\n">> \o Spelling(SwitchPortSeq[i], form) \o tail
          ELSE <<>>)
         \o RenderRows(P, form, tail, i + 1)

\* "show power inline": the header, the separator, a port that is off and
\* the ports that are on, in long spelling
PoeText(P) ==
    <<"I","n","t","e","r","f","a","c","e"," ","A","d","m","i","n"," ","O","p","e","r">> \o <<"\n">>
    \o <<"-","-","-","-","-","-","-","-","-"," ","-","-","-","-","-"," ","-","-","-","-">> \o <<"\n">>
    \o <<"G","i","g","a","b","i","t","E","t","h","e","r","n","e","t","1","/","9"," ","a","u","t","o"," ","o","f","f">>
    \o RenderRows(P, "long", <<" ","a","u","t","o"," ","o","n">>, 1)

\* "show lldp neighbors": the header and one row per neighbour, the local
\* interface first and in short spelling
LldpText(P) ==
    <<"L","o","c","a","l"," ","I","n","t","f"," ","H","o","l","d","-","t","i","m","e">>
    \o RenderRows(P, "short", <<" ","1","2","0">>, 1)

\* a command output: missing, empty, or the table of the chosen ports
Missing == {None, <<>>}

InitDetect ==
    /\ script \in Scripts
    /\ pc = "start"
    /\ powered \in SubsetsUpTo(SwitchPorts, MaxPowered)
    /\ neighbors \in SubsetsUpTo(SwitchPorts, MaxNeighbors)
    /\ poe_raw \in IF powered = {} THEN Missing \cup {PoeText({})} ELSE {PoeText(powered)}
    /\ lldp_raw \in IF neighbors = {} THEN Missing \cup {LldpText({})} ELSE {LldpText(neighbors)}
    /\ poe_on = {}
    /\ lldp_ports = {}
    /\ suspects = <<>>
    /\ rows = <<>>
    /\ error = ""
    /\ NormIdle
    /\ ParseIdle
    /\ MainIdle
    /\ PollIdle
    /\ LaterIdle

\* the texts the parsers are given: ap_hunter_dnac.py reads them with
\* succ.get(..., "") or "", ap_hunter.py passes what send_command returned
ParserInput(sc, raw) == IF sc = "ap_hunter_dnac" /\ Falsy(raw) THEN <<>> ELSE raw

\* poe_on = parse_poe_on(...); lldp_ports = parse_lldp...(...); an exception
\* leaves process_switch through "except Exception"
Parse ==
    /\ pc = "start"
    /\ \E po \in {ParsePoeOn(script, ParserInput(script, poe_raw))} :
       \E ll \in {ParseLldp(script, ParserInput(script, lldp_raw))} :
           IF po.raised # "" \/ ll.raised # ""
           THEN /\ error' = "Unhandled error"
                /\ pc' = "failed"
                /\ UNCHANGED <<poe_on, lldp_ports>>
           ELSE /\ poe_on' = po.val
                /\ lldp_ports' = ll.val
                /\ pc' = "parsed"
                /\ UNCHANGED error
    /\ UNCHANGED <<script, powered, neighbors, poe_raw, lldp_raw, suspects, rows,
                   normVars, parseVars,
                   mainVars, pollVars, laterVars>>

\* suspects = sorted(poe_on - lldp_ports) and the rows of the per-switch CSV
Correlate ==
    /\ pc = "parsed"
    /\ suspects' = Suspects(poe_on, lldp_ports)
    /\ rows' = CsvRows(HOST, suspects')
    /\ pc' = "done"
    /\ UNCHANGED <<script, powered, neighbors, poe_raw, lldp_raw, poe_on, lldp_ports,
                   error, normVars, parseVars,
                   mainVars, pollVars, laterVars>>

NextDetect == Parse \/ Correlate

SpecDetect == InitDetect /\ [][NextDetect]_vars

-----------------------------------------------------------------------------
(* Claims about norm_intf, under SpecNorm                                  *)

\* suffixes that begin with a digit, as a slot/unit/port suffix does
DigitSuffixes == {r \in NormSuffixes : r # <<>> /\ IsDigit(r[1])}

\* the spellings of the same port: long prefix or short prefix, then r
Spellings(i, r) == {SHORTEN_MAP[i].long \o r, SHORTEN_MAP[i].short \o r}

\* C2: normalization is idempotent: norm_intf(norm_intf(x)) = norm_intf(x)
\* for every argument x, in both scripts.
C2_Idempotent == pc = "twice" => renormed = normed

C4_DnacLongShortEquivalence ==
    (script = "ap_hunter_dnac" /\ pc # "start") =>
        \A i \in DOMAIN SHORTEN_MAP : \A r \in DigitSuffixes :
            name \in Spellings(i, r) => normed = SHORTEN_MAP[i].short \o r

\* the length of the run of letters that starts s
LetterRun(s) ==
    LET stops == {k \in 1..Len(s) : ~IsAlpha(s[k])}
    IN  IF stops = {} THEN Len(s) ELSE SetMin(stops) - 1

\* a run of 1 to 3 letters immediately followed by a digit
IsShortForm(s) ==
    /\ s # None
    /\ LetterRun(s) \in 1..3
    /\ LetterRun(s) < Len(s)
    /\ IsDigit(s[LetterRun(s) + 1])
    /\ Clean(s) = s

\* C7: for an argument already in short form, norm_intf returns the whole
\* letter run, first letter upper case and the others lower case, followed
\* by the remainder unchanged, in both scripts.
C7_ShortFormCapitalized ==
    (pc # "start" /\ IsShortForm(name)) =>
        normed = capitalize(SliceTo(name, LetterRun(name))) \o SliceFrom(name, LetterRun(name))

-----------------------------------------------------------------------------
(* Claims about the suspects of one switch, under SpecDetect               *)

\* the elements of a list
Elems(l) == {l[i] : i \in 1..Len(l)}

\* C1: the suspect list of a switch holds exactly the elements of PoeOnSet
\* minus LldpNeighborSet, each once, in ascending lexicographic order of the
\* canonical name, each row with the reason 'PoE on, no LLDP neighbor'; two
\* empty sets give an empty list.
C1_SuspectsSortedDifference ==
    pc = "done" =>
        /\ Elems(suspects) = poe_on \ lldp_ports
        /\ \A i, j \in 1..Len(suspects) : i < j => StrLess(suspects[i], suspects[j])
        /\ Len(rows) = Len(suspects)
        /\ \A i \in 1..Len(rows) :
               rows[i] = [switch |-> HOST, interface |-> suspects[i],
                          reason |-> "PoE on, no LLDP neighbor"]
        /\ (poe_on = {} /\ lldp_ports = {} => suspects = <<>>)

\* C1 happens: of three powered ports the one with a neighbour is left out
\* and the other two are listed, Gi1/10 before Gi1/2, while the table
\* printed them the other way round
C1_Witness ==
    /\ pc = "done"
    /\ Cardinality(poe_on) = 3
    /\ poe_on \cap lldp_ports # {}
    /\ suspects = << <<"G", "i", "1", "/", "1", "0">>, <<"G", "i", "1", "/", "2">> >>
    /\ Len(rows) = 2

\* the names under which a script can list the port p
NamesOf(sc, p) == {NormIntf(sc, LongSpelling(p)), NormIntf(sc, ShortSpelling(p))}

\* the port p is listed as a suspect
Listed(p) == Elems(suspects) \cap NamesOf(script, p) # {}

\* C5: every interface that "show power inline" reports on and for which
\* the LLDP text lists no local interface denoting the same physical port
\* is in the suspect list: an LLDP entry of another port never hides it.
C5_PoweredPortNeverHidden ==
    pc = "done" => \A p \in powered \ neighbors : Listed(p)

\* C6: for every prefix pair, a port that the PoE text reports on in long
\* form and the LLDP table lists in short form is not among the suspects.
C6_LongPoeMatchesShortLldp ==
    pc = "done" => \A p \in powered \cap neighbors : ~Listed(p)

\* C10: with both texts empty or missing (None) the parsers raise nothing
\* and return the empty set, and the suspect list is empty.
C10_MissingTextGivesEmptySets ==
    (pc # "start" /\ poe_raw \in Missing /\ lldp_raw \in Missing) =>
        /\ pc # "failed"
        /\ error = ""
        /\ poe_on = {} /\ lldp_ports = {}
        /\ suspects = <<>>

-----------------------------------------------------------------------------
(* The LLDP parser applied to a text of "show lldp neighbors [detail]"     *)

MaxLldpLines == 3

\* lines a switch prints, and lines that try the parser, in the order a text
\* holds them
LldpLineSeq == <<
    \* 'Local Intf: Gi1/0/1'
    <<"L","o","c","a","l"," ","I","n","t","f",":"," ","G","i","1","/","0","/","1">>,
    \* '  local   intf :  gi1/0/2,'
    <<" "," ","l","o","c","a","l"," "," "," ","i","n","t","f"," ",":"," "," ","g","i","1","/","0","/","2",",">>,
    \* 'Local Intf = Gi1/0/1'
    <<"L","o","c","a","l"," ","I","n","t","f"," ","="," ","G","i","1","/","0","/","1">>,
    \* 'Local Intf Gi1/0/1'
    <<"L","o","c","a","l"," ","I","n","t","f"," ","G","i","1","/","0","/","1">>,
    \* 'Local Intf: TwentyFiveGigE1/0/3'
    <<"L","o","c","a","l"," ","I","n","t","f",":"," ","T","w","e","n","t","y","F","i","v","e","G","i","g","E","1","/","0","/","3">>,
    \* 'Gi1/0/0 120' (a row above the header)
    <<"G","i","1","/","0","/","0"," ","1","2","0">>,
    \* 'Device ID Local Intf Hold-time'
    <<"D","e","v","i","c","e"," ","I","D"," ","L","o","c","a","l"," ","I","n","t","f"," ","H","o","l","d","-","t","i","m","e">>,
    \* 'LOCAL INTF Hold-time'
    <<"L","O","C","A","L"," ","I","N","T","F"," ","H","o","l","d","-","t","i","m","e">>,
    \* '--------'
    <<"-","-","-","-","-","-","-","-">>,
    \* '=== ==='
    <<"=","=","="," ","=","=","=">>,
    \* 'Gi1/0/4 120 B AP01'
    <<"G","i","1","/","0","/","4"," ","1","2","0"," ","B"," ","A","P","0","1">>,
    \* 'GigabitEthernet1/0/5 120'
    <<"G","i","g","a","b","i","t","E","t","h","e","r","n","e","t","1","/","0","/","5"," ","1","2","0">>,
    \* '  Te1/0/6  120'
    <<" "," ","T","e","1","/","0","/","6"," "," ","1","2","0">>,
    \* 'Gi1/0/7: 120'
    <<"G","i","1","/","0","/","7",":"," ","1","2","0">>,
    \* '1/0/8 120'
    <<"1","/","0","/","8"," ","1","2","0">>,
    \* 'X 1'
    <<"X"," ","1">>,
    \* '' (a blank line)
    <<>>,
    \* '   ' (a line of blanks)
    <<" "," "," ">>,
    \* 'Total entries displayed: 3'
    <<"T","o","t","a","l"," ","e","n","t","r","i","e","s"," ","d","i","s","p","l","a","y","e","d",":"," ","3">>,
    \* 'Gi1/0/9 120'
    <<"G","i","1","/","0","/","9"," ","1","2","0">>,
    \* 'Local Intf: Gi1/0/4'
    <<"L","o","c","a","l"," ","I","n","t","f",":"," ","G","i","1","/","0","/","4">> >>

LldpTexts ==
    {JoinLines(LldpLineSeq, pick) : pick \in SubsetsUpTo(DOMAIN LldpLineSeq, MaxLldpLines)}

InitLldp ==
    /\ script \in Scripts
    /\ pc = "start"
    /\ output \in LldpTexts
    /\ parsed = NoResult
    /\ NormIdle
    /\ SwitchIdle
    /\ MainIdle
    /\ PollIdle
    /\ LaterIdle

\* lldp_ports = parse_lldp_local_intf(lldp_raw) / parse_lldp_ports(lldp_txt)
ParseLldpText ==
    /\ pc = "start"
    /\ parsed' = ParseLldp(script, output)
    /\ pc' = "parsed"
    /\ UNCHANGED <<script, output, normVars, switchVars, mainVars, pollVars, laterVars>>

NextLldp == ParseLldpText

SpecLldp == InitLldp /\ [][NextLldp]_vars

-----------------------------------------------------------------------------
(* Claims about the LLDP parsers, under SpecLldp                           *)

\* the lines with a "Local Intf <delim> <token>" field, delim in delims
DetailLines(sc, lines, delims) ==
    {i \in 1..Len(lines) :
        DetailHits(lines[i], delims, IF sc = "ap_hunter" THEN IntfChars ELSE IntfCharsDnac) # {}}

\* the normalized interfaces those lines name
DetailNamed(sc, lines, delims) ==
    {NormIntf(sc, DetailIntf(lines[i], delims,
                             IF sc = "ap_hunter" THEN IntfChars ELSE IntfCharsDnac)) :
        i \in DetailLines(sc, lines, delims)}

\* the interfaces the detail loop of the script collects
DetailOf(sc, lines) == IF sc = "ap_hunter" THEN DetailPorts(lines) ELSE DetailPortsDnac(lines)

DetailSpellings == {LldpLineSeq[1], LldpLineSeq[3], LldpLineSeq[4]}

\* C16: each of the lines "Local Intf: Gi1/0/1", "Local Intf = Gi1/0/1" and
\* "Local Intf Gi1/0/1" puts Gi1/0/1 into the result of the LLDP parser, in
\* both scripts.
C16_DetailLabelAnyDelimiter ==
    (pc = "parsed" /\ output \in DetailSpellings) =>
        <<"G", "i", "1", "/", "0", "/", "1">> \in parsed.val

\* the index of the first blank line behind the header h, Len(lines) + 1
\* when there is none
FirstBlankAfter(lines, h) ==
    LET bs == {i \in (h + 1)..Len(lines) : strip(lines[i]) = <<>>}
    IN  IF bs = {} THEN Len(lines) + 1 ELSE SetMin(bs)

\* the normalized first tokens of the lines a..b that are not blank
RowTokens(sc, lines, a, b) ==
    {NormIntf(sc, FirstToken(lines[i])) : i \in {j \in a..b : strip(lines[j]) # <<>>}}

\* C17: the table scan ends at the first blank line behind the header: all
\* the parser returns is named by a detail line or is the first token of a
\* line between the header and that blank line, in both scripts.
C17_TableStopsAtBlank ==
    pc = "parsed" =>
        LET lines == splitlines(output)
            h == HeaderIdx(lines)
        IN  parsed.val \subseteq
                DetailOf(script, lines) \cup
                (IF h = 0 THEN {}
                 ELSE RowTokens(script, lines, h + 1, FirstBlankAfter(lines, h) - 1))

\* a separator row: a run of at least three "-" or "="
IsSeparatorRow(l) ==
    LET t == strip(l)
    IN  Len(t) >= 3 /\ \A i \in 1..3 : t[i] \in {"-", "="}

\* the table form as specified: behind the first header, every line that is
\* neither blank nor a separator row gives its first token when that token
\* is a letter followed by one or more letters, digits or / . _ -
TableNamed(sc, lines) ==
    LET h == HeaderIdx(lines)
    IN  IF h = 0 THEN {}
        ELSE {NormIntf(sc, FirstToken(lines[i])) :
                i \in {j \in (h + 1)..Len(lines) :
                         /\ strip(lines[j]) # <<>>
                         /\ ~IsSeparatorRow(lines[j])
                         /\ IsIntfToken(FirstToken(lines[j]))}}

\* C18: the table form gives exactly the first tokens that look like an
\* interface, of the lines behind the first header that are neither blank
\* nor separator rows: ap_hunter.py returns that set when no detail line
\* matches, ap_hunter_dnac.py returns it joined with the detail lines' names.
C18_TableFormExactly ==
    pc = "parsed" =>
        LET lines == splitlines(output)
        IN  IF script = "ap_hunter"
            THEN DetailLines(script, lines, {":"}) = {} =>
                     parsed.val = TableNamed(script, lines)
            ELSE parsed.val = TableNamed(script, lines) \cup DetailPortsDnac(lines)

\* C19: parse_lldp_local_intf of ap_hunter.py returns exactly the names of
\* the detail lines when at least one "Local Intf:" line matches, and
\* exactly the names of the table rows when none does.
C19_DetailFirstThenTable ==
    (script = "ap_hunter" /\ pc = "parsed") =>
        LET lines == splitlines(output)
        IN  /\ parsed.raised = ""
            /\ parsed.val = IF DetailLines(script, lines, {":"}) # {}
                            THEN DetailNamed(script, lines, {":"})
                            ELSE TablePorts(lines)

\* C19 happens: a detail line names TwentyFiveGigE1/0/3 above a table with
\* the row Te1/0/6, and the result is the one name Twe1/0/3
C19_Witness ==
    /\ script = "ap_hunter"
    /\ pc = "parsed"
    /\ output = JoinLines(LldpLineSeq, {5, 7, 13})
    /\ <<"T", "e", "1", "/", "0", "/", "6">> \in TablePorts(splitlines(output))
    /\ parsed.val = {<<"T", "w", "e", "1", "/", "0", "/", "3">>}

-----------------------------------------------------------------------------
(* ap_hunt_api.py: the detection inlined in run_commands_for_switch        *)

\* w in s: the str w is a substring of the str s
Contains(s, w) ==
    \E p \in 1..(Len(s) - Len(w) + 1) : SubSeq(s, p, p + Len(w) - 1) = w

\* line and ("on" in line.lower() or "deliver" in line.lower())
ApiReportsPower(line) ==
    /\ line # <<>>
    /\ \/ Contains(lower(line), <<"o","n">>)
       \/ Contains(lower(line), <<"d","e","l","i","v","e","r">>)

RECURSIVE ApiScan(_, _, _)
\* the for loop over power_output.splitlines() from the i-th line on:
\* port = line.split()[0], appended when it is no substring of lldp_output
ApiScan(lines, lldp, i) ==
    IF i > Len(lines) THEN <<>>
    ELSE (IF ApiReportsPower(lines[i]) /\ ~Contains(lldp, FirstToken(lines[i]))
          THEN <<FirstToken(lines[i])>>
          ELSE <<>>)
         \o ApiScan(lines, lldp, i + 1)

\* suspect_ports of run_commands_for_switch
ApiSuspects(power, lldp) == ApiScan(splitlines(power), lldp, 1)

\* results_summary entries of one switch
ApiRows(host, ports) == [i \in 1..Len(ports) |-> [Switch |-> host, Port |-> ports[i]]]

MaxApiPorts == 2

\* the ports of the switch: Gi1/0/1, whose name starts the names of
\* Gi1/0/10 and Gi1/0/11, and ports of other families
ApiPortSeq == <<
    [fam |-> 1, port |-> <<"1","/","0","/","1">>],
    [fam |-> 1, port |-> <<"1","/","0","/","2">>],
    [fam |-> 1, port |-> <<"1","/","0","/","1","0">>],
    [fam |-> 1, port |-> <<"1","/","0","/","1","1">>],
    [fam |-> 2, port |-> <<"1","/","0","/","1">>],
    [fam |-> 3, port |-> <<"1","/","0","/","1">>] >>

ApiPorts == {ApiPortSeq[i] : i \in DOMAIN ApiPortSeq}

Forms == {"long", "short"}

RECURSIVE ApiRenderRows(_, _, _, _)
\* one line per port of P from the i-th on, in the spelling form and
\* followed by tail
ApiRenderRows(P, form, tail, i) ==
    IF i > Len(ApiPortSeq) THEN <<>>
    ELSE (IF ApiPortSeq[i] \in P
          THEN <<"\n">> \o Spelling(ApiPortSeq[i], form) \o tail
          ELSE <<>>)
         \o ApiRenderRows(P, form, tail, i + 1)

\* "show power inline": the header, a port that is off, the ports that are on
ApiPoeText(P, form) ==
    <<"I","n","t","e","r","f","a","c","e"," ","A","d","m","i","n"," ","O","p","e","r"," ","P","o","w","e","r","\n">>
    \o <<"G","i","1","/","0","/","3"," ","a","u","t","o"," ","o","f","f"," ","0",".","0">>
    \o ApiRenderRows(P, form, <<" ","a","u","t","o"," ","o","n"," ","1","5",".","4">>, 1)

\* "show lldp neighbors": the header and one row per neighbour
ApiLldpText(P, form) ==
    <<"D","e","v","i","c","e"," ","I","D"," ","L","o","c","a","l"," ","I","n","t","f"," ","H","o","l","d","-","t","i","m","e">>
    \o ApiRenderRows(P, form, <<" ","1","2","0">>, 1)

\* command_output.get(..., ""): the text, or "" when the command has no entry
InitApi ==
    /\ script = "ap_hunt_api"
    /\ pc = "start"
    /\ powered \in SubsetsUpTo(ApiPorts, MaxApiPorts)
    /\ neighbors \in SubsetsUpTo(ApiPorts, MaxApiPorts)
    /\ \E form \in Forms : poe_raw \in {<<>>, ApiPoeText(powered, form)}
    /\ \E form \in Forms : lldp_raw \in {<<>>, ApiLldpText(neighbors, form)}
    /\ poe_on = {}
    /\ lldp_ports = {}
    /\ suspects = <<>>
    /\ rows = <<>>
    /\ error = ""
    /\ NormIdle
    /\ ParseIdle
    /\ MainIdle
    /\ PollIdle
    /\ LaterIdle

\* Step 5 and Step 6 of run_commands_for_switch
ApiDetect ==
    /\ pc = "start"
    /\ suspects' = ApiSuspects(poe_raw, lldp_raw)
    /\ rows' = ApiRows(HOST, suspects')
    /\ pc' = "done"
    /\ UNCHANGED <<script, powered, neighbors, poe_raw, lldp_raw, poe_on, lldp_ports,
                   error, normVars, parseVars,
                   mainVars, pollVars, laterVars>>

NextApi == ApiDetect

SpecApi == InitApi /\ [][NextApi]_vars

\* C12: run_commands_for_switch of ap_hunt_api.py reports, for every pair
\* of texts, the ports of PoeOnSet minus LldpNeighborSet as the parsers of
\* ap_hunter.py compute them: a port is reported exactly when its line
\* reports "on" and no LLDP row names that port.
C12_ApiSameAsParsers ==
    pc = "done" =>
        {norm_intf(suspects[i]) : i \in 1..Len(suspects)} =
            parse_poe_on(poe_raw).val \ parse_lldp_local_intf(lldp_raw).val

-----------------------------------------------------------------------------
(* ap_hunter.py: main runs process_switch for every device in a thread pool *)

MaxDevices == 2

\* the hosts of the inventory in file order, which is not the sorted order
HostSeq == << <<"s","w","2">>, <<"s","w","1","0">>, <<"s","w","1">> >>

Devices == {HostSeq[i] : i \in 1..MaxDevices}

\* the place of a host in the inventory
HostIndex(h) == CHOOSE i \in 1..MaxDevices : HostSeq[i] = h

\* what a switch answers to the two commands
HostTexts == {
    [poe  |-> PoeText({[fam |-> 1, port |-> <<"1","/","2">>], [fam |-> 1, port |-> <<"1","/","1","0">>]}),
     lldp |-> LldpText({})],
    [poe  |-> PoeText({[fam |-> 1, port |-> <<"1","/","2">>], [fam |-> 2, port |-> <<"1","/","2">>]}),
     lldp |-> LldpText({[fam |-> 1, port |-> <<"1","/","2">>]})],
    [poe  |-> PoeText({[fam |-> 2, port |-> <<"1","/","2">>]}),
     lldp |-> LldpText({[fam |-> 2, port |-> <<"1","/","2">>]})] }

\* the exceptions a step of process_switch can meet
NetmikoErrors == {"NetmikoTimeoutException", "NetmikoAuthenticationException"}
ConnectOutcomes == {"ok"} \cup NetmikoErrors \cup {"Exception"}
CollectOutcomes == {"ok", "NetmikoTimeoutException", "Exception"}
WriteOutcomes == {"ok", "OSError"}

\* the two except clauses with only the first kept: another exception leaves
\* process_switch
CatchNetmikoOnly(e) ==
    IF e \in NetmikoErrors THEN [caught |-> TRUE, error |-> e]
    ELSE [caught |-> FALSE, error |-> ""]

\* except (NetmikoTimeoutException, NetmikoAuthenticationException) as e:
\*     result["error"] = f"{type(e).__name__}: {e}"
\* except Exception as e: result["error"] = f"Unhandled error: {e}"
Catch(e) ==
    IF e \in NetmikoErrors THEN [caught |-> TRUE, error |-> e]
    ELSE [caught |-> TRUE, error |-> "Unhandled error"]

\* result as process_switch creates it
NewResult == [ok |-> FALSE, error |-> "", poe_on |-> {}, lldp_ports |-> {}, suspects |-> <<>>]

\* a file below args.out: os.path.join(outdir, host) + suffix, and its writer
FileOf(h, suffix) == [path |-> <<h, suffix>>, by |-> h]

\* a < b for two (host, iface) tuples
PairLess(a, b) == StrLess(a[1], b[1]) \/ (a[1] = b[1] /\ StrLess(a[2], b[2]))

RECURSIVE InsertPair(_, _)
InsertPair(l, x) ==
    IF l = <<>> THEN <<x>>
    ELSE IF PairLess(x, Head(l)) THEN <<x>> \o l
    ELSE <<Head(l)>> \o InsertPair(Tail(l), x)

RECURSIVE SortedPairs(_)
\* sorted(combined)
SortedPairs(l) ==
    IF l = <<>> THEN <<>> ELSE InsertPair(SortedPairs(SubSeq(l, 1, Len(l) - 1)), l[Len(l)])

\* the rows of the combined CSV written in the order of the list combined
CombinedRowsUnsorted(l) ==
    [i \in 1..Len(l) |-> [switch |-> l[i][1], interface |-> l[i][2], reason |-> REASON]]

\* for host, iface in sorted(combined): w.writerow([host, iface, reason, ts])
CombinedRows(l) ==
    LET s == SortedPairs(l)
    IN  [i \in 1..Len(s) |-> [switch |-> s[i][1], interface |-> s[i][2], reason |-> REASON]]

InitMain ==
    /\ script = "ap_hunter"
    /\ pc = "pool"
    /\ workers \in 1..MaxDevices
    /\ texts \in [Devices -> HostTexts]
    /\ wpc = [h \in Devices |-> "queued"]
    /\ result = [h \in Devices |-> NewResult]
    /\ files = {}
    /\ combined = <<>>
    /\ errors = <<>>
    /\ collected = {}
    /\ combined_csv = NoFile
    /\ NormIdle
    /\ ParseIdle
    /\ SwitchIdle
    /\ PollIdle
    /\ LaterIdle

\* the calls of process_switch that hold a thread of the pool
Running == {h \in Devices : wpc[h] \notin {"queued", "returned", "raised"}}

\* an exception e in the try block of process_switch for host h
Fail(h, e) ==
    IF Catch(e).caught
    THEN /\ result' = [result EXCEPT ![h].error = Catch(e).error]
         /\ wpc' = [wpc EXCEPT ![h] = "returned"]
    ELSE /\ wpc' = [wpc EXCEPT ![h] = "raised"]
         /\ UNCHANGED result

\* a free thread takes the next submitted call; conn = ConnectHandler(...)
Connect(h) ==
    /\ pc = "pool"
    /\ wpc[h] = "queued"
    /\ \A g \in Devices : wpc[g] = "queued" => HostIndex(h) <= HostIndex(g)
    /\ Cardinality(Running) < workers
    /\ \E o \in ConnectOutcomes :
           IF o = "ok"
           THEN wpc' = [wpc EXCEPT ![h] = "connected"] /\ UNCHANGED result
           ELSE Fail(h, o)
    /\ UNCHANGED <<script, pc, workers, texts, files, combined, errors, collected,
                   combined_csv, normVars, parseVars, switchVars, pollVars, laterVars>>

\* the two send_command calls and conn.disconnect()
Collect(h) ==
    /\ wpc[h] = "connected"
    /\ \E o \in CollectOutcomes :
           IF o = "ok"
           THEN wpc' = [wpc EXCEPT ![h] = "collected"] /\ UNCHANGED result
           ELSE Fail(h, o)
    /\ UNCHANGED <<script, pc, workers, texts, files, combined, errors, collected,
                   combined_csv, normVars, parseVars, switchVars, pollVars, laterVars>>

\* poe_on = parse_poe_on(poe_raw); lldp_ports = parse_lldp_local_intf(lldp_raw)
ParseTexts(h) ==
    /\ wpc[h] = "collected"
    /\ \E po \in {parse_poe_on(texts[h].poe)} :
       \E ll \in {parse_lldp_local_intf(texts[h].lldp)} :
           IF po.raised # "" \/ ll.raised # ""
           THEN Fail(h, "AttributeError")
           ELSE /\ result' = [result EXCEPT ![h].poe_on = po.val, ![h].lldp_ports = ll.val]
                /\ wpc' = [wpc EXCEPT ![h] = "parsed"]
    /\ UNCHANGED <<script, pc, workers, texts, files, combined, errors, collected,
                   combined_csv, normVars, parseVars, switchVars, pollVars, laterVars>>

\* ensure_dir(outdir) and the two raw lists; an OSError may come before the
\* first file or between the two
WriteLists(h) ==
    /\ wpc[h] = "parsed"
    /\ \E o \in WriteOutcomes :
           IF o = "ok"
           THEN /\ files' = files \cup {FileOf(h, "_poe_on.txt"), FileOf(h, "_lldp_local.txt")}
                /\ wpc' = [wpc EXCEPT ![h] = "listed"]
                /\ UNCHANGED result
           ELSE /\ \E done \in {{}, {FileOf(h, "_poe_on.txt")}} : files' = files \cup done
                /\ Fail(h, o)
    /\ UNCHANGED <<script, pc, workers, texts, combined, errors, collected,
                   combined_csv, normVars, parseVars, switchVars, pollVars, laterVars>>

\* suspects = sorted(poe_on - lldp_ports), the per-switch CSV, ok = True
WriteCsv(h) ==
    /\ wpc[h] = "listed"
    /\ \E sus \in {Suspects(result[h].poe_on, result[h].lldp_ports)} :
       \E o \in WriteOutcomes :
           IF o = "ok"
           THEN /\ files' = files \cup {FileOf(h, "_suspects.csv")}
                /\ result' = [result EXCEPT ![h].suspects = sus, ![h].ok = TRUE]
                /\ wpc' = [wpc EXCEPT ![h] = "returned"]
           ELSE /\ UNCHANGED files
                /\ result' = [result EXCEPT ![h].suspects = sus,
                                            ![h].error = Catch(o).error]
                /\ wpc' = [wpc EXCEPT ![h] = IF Catch(o).caught THEN "returned" ELSE "raised"]
    /\ UNCHANGED <<script, pc, workers, texts, combined, errors, collected,
                   combined_csv, normVars, parseVars, switchVars, pollVars, laterVars>>

\* for fut in as_completed(futs): res = fut.result(); ...
MainCollect(h) ==
    /\ pc = "pool"
    /\ h \notin collected
    /\ wpc[h] \in {"returned", "raised"}
    /\ collected' = collected \cup {h}
    /\ IF wpc[h] = "raised"
       THEN pc' = "aborted" /\ UNCHANGED <<combined, errors>>
       ELSE /\ UNCHANGED pc
            /\ IF result[h].ok
               THEN /\ combined' = combined \o
                          [i \in 1..Len(result[h].suspects) |-> <<h, result[h].suspects[i]>>]
                    /\ UNCHANGED errors
               ELSE /\ errors' = Append(errors, <<h, result[h].error>>)
                    /\ UNCHANGED combined
    /\ UNCHANGED <<script, workers, texts, wpc, result, files, combined_csv,
                   normVars, parseVars, switchVars, pollVars, laterVars>>

\* the pool is left when every call has ended; the combined CSV is written
MainWrite ==
    /\ pc = "pool"
    /\ collected = Devices
    /\ combined_csv' = [written |-> TRUE, rows |-> CombinedRows(combined)]
    /\ pc' = "done"
    /\ UNCHANGED <<script, workers, texts, wpc, result, files, combined, errors,
                   collected, normVars, parseVars, switchVars, pollVars, laterVars>>

NextMain ==
    \/ \E h \in Devices : Connect(h)
    \/ \E h \in Devices : Collect(h)
    \/ \E h \in Devices : ParseTexts(h)
    \/ \E h \in Devices : WriteLists(h)
    \/ \E h \in Devices : WriteCsv(h)
    \/ \E h \in Devices : MainCollect(h)
    \/ MainWrite

SpecMain == InitMain /\ [][NextMain]_vars

-----------------------------------------------------------------------------
(* Claims about the run of ap_hunter.main, under SpecMain                  *)

\* the entries of the list l whose first component is the host h
EntriesOf(l, h) == SelectSeq(l, LAMBDA e : e[1] = h)

\* some thread can take a step: a call that holds a thread, the next queued
\* call when a thread is free, or main with a call that ended or with all
\* of them collected
CanStep ==
    \/ \E h \in Devices : wpc[h] \in {"connected", "collected", "parsed", "listed"}
    \/ pc = "pool" /\ \E h \in Devices : wpc[h] = "queued" /\ Cardinality(Running) < workers
    \/ pc = "pool" /\ \E h \in Devices \ collected : wpc[h] \in {"returned", "raised"}
    \/ pc = "pool" /\ collected = Devices

\* C13: a failure on one switch never aborts the run: no call of
\* process_switch raises, a call that failed returns ok = False with an
\* error text and a call that succeeded returns ok = True without one; main
\* accounts for every device it has collected exactly once, by its suspects
\* in combined or by one entry in errors, never both; every step moves one
\* call or main forward, and as long as the combined CSV is not written some
\* thread can take a step; when it is written every device is accounted.
C13_EveryDeviceAccounted ==
    /\ pc # "aborted"
    /\ \A h \in Devices :
           /\ wpc[h] # "raised"
           /\ wpc[h] = "returned" => (result[h].ok <=> result[h].error = "")
    /\ \A h \in collected :
           IF result[h].ok
           THEN /\ EntriesOf(errors, h) = <<>>
                /\ EntriesOf(combined, h) =
                       [i \in 1..Len(result[h].suspects) |-> <<h, result[h].suspects[i]>>]
           ELSE /\ EntriesOf(errors, h) = << <<h, result[h].error>> >>
                /\ EntriesOf(combined, h) = <<>>
    /\ \A h \in Devices \ collected :
           EntriesOf(errors, h) = <<>> /\ EntriesOf(combined, h) = <<>>
    /\ pc = "done" \/ CanStep
    /\ pc = "done" => collected = Devices /\ combined_csv.written

\* C13 happens: the run is over, sw10 failed with an exception that is no
\* Netmiko exception and stands in errors, sw2 went through and its two
\* suspects stand in the combined CSV
C13_Witness ==
    /\ pc = "done"
    /\ result[<<"s","w","1","0">>].error = "Unhandled error"
    /\ errors = << <<<<"s","w","1","0">>, "Unhandled error">> >>
    /\ result[<<"s","w","2">>].ok
    /\ Len(combined_csv.rows) = 2
    /\ \A i \in 1..2 : combined_csv.rows[i].switch = <<"s","w","2">>

\* the suspects of a switch, from its two texts alone
SuspectsOfTexts(t) ==
    Suspects(parse_poe_on(t.poe).val, parse_lldp_local_intf(t.lldp).val)

\* the (host, iface) pairs of the devices whose call succeeded
OkPairs ==
    {<<h, i>> : h \in {d \in Devices : result[d].ok},
                i \in UNION {Elems(SuspectsOfTexts(texts[d])) : d \in Devices}}
    \cap UNION {{<<d, i>> : i \in Elems(SuspectsOfTexts(texts[d]))} : d \in Devices}

\* C14: the suspects of a switch depend on its own two texts only; the rows
\* of the combined CSV are the pairs of the switches that went through, in
\* ascending order, whatever the interleaving and the order in which the
\* calls ended; calls for different hosts write no common file.
C14_CombinedIndependentOfOrder ==
    /\ \A h \in Devices :
           (wpc[h] = "returned" /\ result[h].ok) =>
               result[h].suspects = SuspectsOfTexts(texts[h])
    /\ pc = "done" =>
           /\ Elems(combined_csv.rows) =
                  {[switch |-> p[1], interface |-> p[2], reason |-> REASON] : p \in OkPairs}
           /\ Len(combined_csv.rows) = Cardinality(OkPairs)
           /\ \A i, j \in 1..Len(combined_csv.rows) :
                  i < j => PairLess(<<combined_csv.rows[i].switch, combined_csv.rows[i].interface>>,
                                    <<combined_csv.rows[j].switch, combined_csv.rows[j].interface>>)
    /\ \A f, g \in files : f.path = g.path => f.by = g.by

\* C14 happens: sw2 ended first and sw10 second, both with suspects, and
\* the combined CSV lists sw10 before sw2
C14_Witness ==
    /\ pc = "done"
    /\ Len(combined) >= 2
    /\ combined[1][1] = <<"s","w","2">>
    /\ combined[Len(combined)][1] = <<"s","w","1","0">>
    /\ combined_csv.rows[1].switch = <<"s","w","1","0">>
    /\ combined_csv.rows[Len(combined_csv.rows)].switch = <<"s","w","2">>
    /\ \E f, g \in files : f.by # g.by

-----------------------------------------------------------------------------
(* The task-polling loops of ap_hunt_api.py, mass_command_runner.py and    *)
(* mass_pnp_and_dayn.py (PnP import)                                       *)

Pollers == {"ap_hunt_api", "mass_command_runner", "mass_pnp_and_dayn"}

\* time.sleep(3), time.sleep(2), time.sleep(2)
ApiSleep == 3
RunnerSleep == 2
PnpSleep == 2

SleepSeconds(sc) ==
    CASE sc = "ap_hunt_api" -> ApiSleep
      [] sc = "mass_command_runner" -> RunnerSleep
      [] sc = "mass_pnp_and_dayn" -> PnpSleep

\* the seconds the model counts before it stops counting
MaxWait == 12

\* what the controller does with a task: finish it, fail it, or report
\* nothing but progress for ever
Controllers == {"finishes", "fails", "silent"}

\* the answer before the first GET
NoAnswer == [http |-> "", isError |-> FALSE, progress |-> <<>>, fileId |-> None]

\* answers of a task that is still running
RunningAnswers == {
    [http |-> "ok", isError |-> FALSE, progress |-> <<>>, fileId |-> None],
    [http |-> "ok", isError |-> FALSE, progress |-> <<"C","L","I"," ","R","u","n","n","e","r"," ","r","e","q","u","e","s","t"," ","c","r","e","a","t","i","o","n">>,
     fileId |-> None] }

\* answers of a task that has ended well
FinalAnswers == {
    [http |-> "ok", isError |-> FALSE, progress |-> <<"{","\"","f","i","l","e","I","d","\"",":","\"","f","1","\"","}">>, fileId |-> <<"f","1">>],
    [http |-> "ok", isError |-> FALSE, progress |-> <<"T","a","s","k"," ","C","o","m","p","l","e","t","e">>, fileId |-> <<"f","1">>],
    [http |-> "ok", isError |-> FALSE, progress |-> <<"S","u","c","c","e","s","s">>, fileId |-> <<"f","1">>] }

\* answers of a task or a request that failed
ErrorAnswers == {
    [http |-> "ok", isError |-> TRUE, progress |-> <<"T","a","s","k"," ","f","a","i","l","e","d">>, fileId |-> None],
    [http |-> "500", isError |-> FALSE, progress |-> <<>>, fileId |-> None] }

Answers(c) ==
    CASE c = "silent" -> RunningAnswers
      [] c = "finishes" -> RunningAnswers \cup FinalAnswers
      [] c = "fails" -> RunningAnswers \cup ErrorAnswers

\* one pass of "while not file_id" of ap_hunt_api.py: the position behind
\* it; a reply that is no JSON task makes .json() raise
ApiPass(a) ==
    IF a.http # "ok" THEN "raised"
    ELSE IF Contains(a.progress, <<"f","i","l","e","I","d">>) THEN "ready"
    ELSE "sleep"

\* one pass of "while True" of mass_command_runner.py
RunnerPass(a) ==
    IF a.http # "ok" THEN "raised"
    ELSE IF a.isError THEN "ready"
    ELSE IF \/ Contains(lower(a.progress), <<"c","o","m","p","l","e","t","e">>)
            \/ Contains(lower(a.progress), <<"s","u","c","c","e","s","s">>) THEN "ready"
    ELSE "sleep"

\* one pass of the PnP import poll of mass_pnp_and_dayn.py
PnpPass(a) ==
    IF a.http # "ok" THEN "raised"
    ELSE IF a.isError THEN "ready"
    ELSE IF Contains(lower(a.progress), <<"c","o","m","p","l","e","t","e">>) THEN "ready"
    ELSE "sleep"

Pass(sc, a) ==
    CASE sc = "ap_hunt_api" -> ApiPass(a)
      [] sc = "mass_command_runner" -> RunnerPass(a)
      [] sc = "mass_pnp_and_dayn" -> PnpPass(a)

\* file_id behind a pass: json.loads(progress)["fileId"] in ap_hunt_api.py,
\* tj.get("fileId") in mass_command_runner.py, no such name in the PnP poll
FileIdAfter(sc, a, old) ==
    CASE sc = "ap_hunt_api" -> IF ApiPass(a) = "ready" THEN a.fileId ELSE old
      [] sc = "mass_command_runner" -> IF a.http = "ok" THEN a.fileId ELSE old
      [] sc = "mass_pnp_and_dayn" -> old

InitPoll ==
    /\ script \in Pollers
    /\ pc = "poll"
    /\ controller \in Controllers
    /\ response = NoAnswer
    /\ waited = 0
    /\ file_id = None
    /\ NormIdle
    /\ ParseIdle
    /\ SwitchIdle
    /\ MainIdle
    /\ LaterIdle

\* GET task and the tests on the reply
PollTask ==
    /\ pc = "poll"
    /\ \E a \in Answers(controller) :
           /\ response' = a
           /\ pc' = Pass(script, a)
           /\ file_id' = FileIdAfter(script, a, file_id)
    /\ UNCHANGED <<script, controller, waited, normVars, parseVars, switchVars, mainVars,
                   laterVars>>

\* time.sleep(...), and back to the head of the loop
Sleep ==
    /\ pc = "sleep"
    /\ waited' = IF waited + SleepSeconds(script) > MaxWait THEN MaxWait
                 ELSE waited + SleepSeconds(script)
    /\ pc' = "poll"
    /\ UNCHANGED <<script, controller, response, file_id, normVars, parseVars,
                   switchVars, mainVars, laterVars>>

NextPoll == PollTask \/ Sleep

\* the script is not stopped from outside: a loop that can go on goes on
SpecPoll == InitPoll /\ [][NextPoll]_vars /\ WF_vars(NextPoll)

\* C15: every polling loop ends: also when the controller never reports
\* that the task is complete (no fileId, no "complete" or "success", no
\* isError), the loop is left after some time.
C15_PollingTerminates ==
    [](controller = "silent" => <>(pc \notin {"poll", "sleep"}))

-----------------------------------------------------------------------------
(* wait_for_task of src/jobs.py                                            *)

\* a JSON value, written as its JSON text, is false in a Python test when
\* it is null, false, 0, "" or an empty container
Truthy(v) == v \notin {"null", "false", "0", "\"\"", "{}", "[]"}

\* the largest timeout_s a caller passes, and the longest a request takes
MaxTimeout == 7
MaxLatency == 1

\* poll_s: int = 3
poll_s == 3

\* data.get("response", {}) of a task: endTime and isError as the JSON
\* values the controller sends, null when the key is missing
TaskRecords ==
    [fetched : {TRUE}, endTime : {"null", "0", "1718000000"},
     isError : {"null", "false", "true"}]

\* the test that lets every record through
TaskEndedAlways(progress) == TRUE

\* if end_time or is_error
TaskEnded(progress) == Truthy(progress.endTime) \/ Truthy(progress.isError)

InitWaitTask ==
    /\ script = "jobs"
    /\ pc = "while"
    /\ clock = 0
    /\ t0 = 0
    /\ timeout_s \in 0..MaxTimeout
    /\ last = NoRecord
    /\ returned = NoRecord
    /\ raised = ""
    /\ gets = 0
    /\ BesideWaitIdle

\* while time.time() < end, and the raise behind the loop
WaitForTaskHead ==
    /\ pc = "while"
    /\ IF clock < t0 + timeout_s
       THEN pc' = "get" /\ raised' = raised
       ELSE pc' = "raised" /\ raised' = "TimeoutError"
    /\ UNCHANGED <<script, clock, t0, timeout_s, last, returned, gets, besideWait>>

\* client.get answers with a record: return it or go to sleep
WaitForTaskGet ==
    /\ pc = "get"
    /\ \E progress \in TaskRecords, d \in 0..MaxLatency :
           /\ clock' = clock + d
           /\ last' = progress
           /\ IF TaskEnded(progress)
              THEN pc' = "returned" /\ returned' = progress
              ELSE pc' = "sleep" /\ returned' = returned
    /\ gets' = gets + 1
    /\ UNCHANGED <<script, t0, timeout_s, raised, besideWait>>

\* client.get raises: resp.raise_for_status() or the request itself
WaitForTaskGetFails ==
    /\ pc = "get"
    /\ \E d \in 0..MaxLatency : clock' = clock + d
    /\ gets' = gets + 1
    /\ raised' = "HTTPError"
    /\ pc' = "raised"
    /\ UNCHANGED <<script, t0, timeout_s, last, returned, besideWait>>

\* time.sleep(poll_s)
WaitForTaskSleep ==
    /\ pc = "sleep"
    /\ clock' = clock + poll_s
    /\ pc' = "while"
    /\ UNCHANGED <<script, t0, timeout_s, last, returned, raised, gets, besideWait>>

NextWaitTask ==
    \/ WaitForTaskHead
    \/ WaitForTaskGet
    \/ WaitForTaskGetFails
    \/ WaitForTaskSleep

\* the interpreter goes on with the call as long as it has a step to take
SpecWaitTask == InitWaitTask /\ [][NextWaitTask]_vars /\ WF_vars(NextWaitTask)

\* what wait_for_task may have done at any moment
WaitTaskSafe ==
    /\ pc = "returned" =>
           /\ returned.fetched
           /\ returned = last
           /\ returned.endTime \notin {"null", "0"} \/ returned.isError = "true"
    /\ pc # "returned" => returned = NoRecord
    /\ raised = "TimeoutError" => pc = "raised" /\ clock >= t0 + timeout_s
    /\ raised \in {"", "TimeoutError", "HTTPError"}
    /\ (pc = "raised") = (raised # "")

\* C21: wait_for_task returns only a record in which endTime or isError is
\* set, never the record of a task that still runs; it raises TimeoutError
\* only once timeout_s has elapsed; and the call always ends.
C21_WaitForTaskEnds ==
    /\ []WaitTaskSafe
    /\ <>(pc \in {"returned", "raised"})

\* a finished record is returned behind a sleep, after a record of the
\* running task was fetched
C21_Witness ==
    /\ script = "jobs"
    /\ pc = "returned"
    /\ gets = 2
    /\ clock >= poll_s
    /\ returned.endTime = "1718000000"
    /\ returned.isError = "null"

-----------------------------------------------------------------------------
(* DNACClient of src/dnac_client.py: the token behind get and post         *)

\* 45 * 60 of _ensure_token; stop_after_attempt(3);
\* wait_exponential(multiplier=1, min=1, max=8)
RefreshAfter == 2700
StopAfterAttempt == 3
WaitMin == 1
WaitMax == 8

\* the calls of get and post in a run, the refresh periods the run lasts,
\* and the steps in which the time between two calls passes
MaxCalls == 3
MaxPeriods == 2
Ticks == {900, 901}

\* the test that never refreshes a cached token
TokenNeededOnce(tok, ts, now) == tok = NoToken

\* if not self._token or (time.time() - self._token_ts) > 45 * 60
TokenNeeded(tok, ts, now) == tok = NoToken \/ now - ts > RefreshAfter

\* {"X-Auth-Token": token, ...} and, for the record, when they were built
Headers(tok, now) == [built |-> TRUE, token |-> tok, at |-> now]

InitClient ==
    /\ script = "dnac_client"
    /\ pc = "idle"
    /\ clock \in {0, 1}
    /\ token = NoToken
    /\ token_ts = 0
    /\ attempt = 0
    /\ auths = 0
    /\ headers = NoHeaders
    /\ gets = 0
    /\ raised = ""
    /\ t0 = 0 /\ timeout_s = 0 /\ last = NoRecord /\ returned = NoRecord
    /\ BesideTokenIdle

\* time passes between two calls
ClientTick ==
    /\ pc = "idle"
    /\ clock < MaxPeriods * RefreshAfter
    /\ \E d \in Ticks : clock' = clock + d
    /\ UNCHANGED <<script, pc, tokenVars, gets, raised, t0, timeout_s, last, returned,
                   besideToken>>

\* get or post is called: _headers calls _ensure_token
EnsureToken ==
    /\ pc = "idle"
    /\ gets < MaxCalls
    /\ gets' = gets + 1
    /\ raised' = ""
    /\ IF TokenNeeded(token, token_ts, clock)
       THEN /\ pc' = "auth"
            /\ attempt' = 1
            /\ headers' = NoHeaders
       ELSE /\ pc' = "send"
            /\ attempt' = 0
            /\ headers' = Headers(token, clock)
    /\ UNCHANGED <<script, clock, token, token_ts, auths, t0, timeout_s, last, returned,
                   besideToken>>

\* _request_token: the controller answers with a Token
RequestToken ==
    /\ pc = "auth"
    /\ auths' = auths + 1
    /\ token' = [id |-> auths + 1, issued |-> clock]
    /\ token_ts' = clock
    /\ attempt' = 0
    /\ headers' = Headers(token', clock)
    /\ pc' = "send"
    /\ UNCHANGED <<script, clock, gets, raised, t0, timeout_s, last, returned, besideToken>>

\* _request_token: raise_for_status() raises or the answer has no Token;
\* tenacity waits and tries again, or gives up behind the third attempt
RequestTokenFails ==
    /\ pc = "auth"
    /\ auths' = auths + 1
    /\ IF attempt < StopAfterAttempt
       THEN /\ attempt' = attempt + 1
            /\ \E w \in {WaitMin, WaitMax} : clock' = clock + w
            /\ pc' = "auth"
            /\ raised' = raised
       ELSE /\ attempt' = 0
            /\ clock' = clock
            /\ pc' = "idle"
            /\ raised' = "RetryError"
    /\ UNCHANGED <<script, token, token_ts, headers, gets, t0, timeout_s, last, returned,
                   besideToken>>

\* requests.get / requests.post with the headers, then raise_for_status()
SendRequest ==
    /\ pc = "send"
    /\ pc' = "idle"
    /\ raised' \in {"", "HTTPError"}
    /\ UNCHANGED <<script, clock, tokenVars, gets, t0, timeout_s, last, returned,
                   besideToken>>

NextClient ==
    \/ ClientTick
    \/ EnsureToken
    \/ RequestToken
    \/ RequestTokenFails
    \/ SendRequest

SpecClient == InitClient /\ [][NextClient]_vars

\* a request that is sent carries a token that is there and young enough
SentWithFreshToken ==
    pc = "send" =>
        /\ headers.built
        /\ headers.token.id > 0
        /\ headers.at - headers.token.issued <= RefreshAfter
        /\ headers.at <= clock

\* _ensure_token asks for a token exactly when it has none or an old one
AuthExactlyWhenNeeded ==
    (pc = "idle" /\ pc' # "idle") =>
        /\ (pc' = "auth") = (token = NoToken \/ clock - token_ts > RefreshAfter)
        /\ pc' = "send" => auths' = auths /\ token' = token /\ headers'.token = token

\* a token request that fails changes neither _token nor _token_ts
FailedAuthKeepsToken ==
    (auths' = auths + 1 /\ pc' # "send") => token' = token /\ token_ts' = token_ts

\* C22: every request sent by get or post carries a non-empty token obtained
\* at most 45 minutes before its headers were built; _ensure_token requests a
\* token exactly when none is cached or the cached one is older than 45
\* minutes, and reuses it otherwise; a failed token request leaves the
\* cached token and its timestamp unchanged.
C22_TokenFreshOnEveryRequest ==
    /\ []SentWithFreshToken
    /\ [][AuthExactlyWhenNeeded]_vars
    /\ [][FailedAuthKeepsToken]_vars

\* the second call found the first token 45 minutes and one second old; its
\* first token request failed and the second one brought the token it sends
C22_Witness ==
    /\ script = "dnac_client"
    /\ pc = "send"
    /\ gets = 2
    /\ auths = 3
    /\ token.id = 3
    /\ token.issued > RefreshAfter + 1
    /\ token.issued <= RefreshAfter + 1 + WaitMax
    /\ headers.token = token

-----------------------------------------------------------------------------
(* DNACClient.paginate of src/dnac_client.py                               *)

\* the items the server holds at most, and the largest limit a caller asks
MaxItems == 6
MaxLimit == 3

\* params.pop("limit", 500)
DefaultLimit == 500

\* the devices of the server, in the server's order
ItemSeq == <<"d3", "d1", "d7", "d2", "d5", "d4", "d6", "d9", "d8">>

Min(a, b) == IF a < b THEN a ELSE b

\* the answer to offset and limit: the items at the positions
\* offset .. offset+limit-1, counted from 1
ServerPage(inv, off, lim) ==
    IF off > Len(inv) THEN <<>> ELSE SubSeq(inv, off, Min(Len(inv), off + lim - 1))

\* a mapping is a set of pairs <<key, value>>
Keys(m) == {kv[1] : kv \in m}
Get(m, k, default) == IF k \in Keys(m) THEN (CHOOSE kv \in m : kv[1] = k)[2] ELSE default
Without(m, k) == {kv \in m : kv[1] # k}
\* dict.update: the later value of a key wins
Update(m, more) == {kv \in m : kv[1] \notin Keys(more)} \cup more

\* what callers pass as params
ParamsSet ==
    {NoParams, [given |-> TRUE, map |-> {}],
     [given |-> TRUE, map |-> {<<"family", "Switches">>}]}
    \cup {[given |-> TRUE, map |-> {<<"limit", l>>}] : l \in 1..MaxLimit}
    \cup {[given |-> TRUE, map |-> {<<"family", "Switches">>, <<"limit", l>>}] :
              l \in 1..MaxLimit}

\* the test that also stops behind a full page
LastPageOrFull(page_items, lim) == Len(page_items) <= lim

\* if len(page_items) < limit: break
LastPage(page_items, lim) == Len(page_items) < lim

InitPage ==
    /\ script = "dnac_client"
    /\ pc = "paginate"
    /\ \E n \in 0..MaxItems : inventory = SubSeq(ItemSeq, 1, n)
    /\ params \in ParamsSet
    /\ query = {}
    /\ limit = 0
    /\ offset = 0
    /\ items = <<>>
    /\ asked = <<>>
    /\ BesidePageIdle

\* params = dict(params or {}); items = []; offset = 1; limit = params.pop(...)
PaginateBegin ==
    /\ pc = "paginate"
    /\ query' = Without(params.map, "limit")
    /\ limit' = Get(params.map, "limit", DefaultLimit)
    /\ offset' = 1
    /\ items' = <<>>
    /\ pc' = "page"
    /\ UNCHANGED <<script, inventory, params, asked, besidePage>>

\* one pass of while True: the request and what follows from its page
PaginatePage ==
    /\ pc = "page"
    /\ LET page_params == Update(query, {<<"offset", offset>>, <<"limit", limit>>})
           page_items == ServerPage(inventory, offset, limit)
       IN  /\ asked' = Append(asked, page_params)
           /\ IF page_items = <<>>
              THEN /\ pc' = "returned"
                   /\ UNCHANGED <<items, offset>>
              ELSE /\ items' = items \o page_items
                   /\ IF LastPage(page_items, limit)
                      THEN pc' = "returned" /\ offset' = offset
                      ELSE pc' = "page" /\ offset' = offset + limit
    /\ UNCHANGED <<script, inventory, params, query, limit, besidePage>>

NextPage == PaginateBegin \/ PaginatePage

SpecPage == InitPage /\ [][NextPage]_vars

\* the limit paginate works with for the caller's params
LimitOf(p) == IF <<"limit", 1>> \in p.map THEN 1
              ELSE IF <<"limit", 2>> \in p.map THEN 2
              ELSE IF <<"limit", 3>> \in p.map THEN 3
              ELSE IF <<"limit", 4>> \in p.map THEN 4
              ELSE DefaultLimit

\* the requests sent so far ask for 1, 1+limit, 1+2*limit, ... with the
\* caller's other params; the items are the pages so far, in server order
PagesInOrder ==
    pc \in {"page", "returned"} =>
        /\ \A i \in 1..Len(asked) :
               asked[i] = {kv \in params.map : kv[1] # "limit"}
                          \cup {<<"offset", 1 + (i - 1) * LimitOf(params)>>,
                                <<"limit", LimitOf(params)>>}
        /\ \E n \in 0..Len(inventory) : items = SubSeq(inventory, 1, n)

\* paginate returns behind the first page that is empty or short, with all
\* the items of the server
AllItemsOnce ==
    pc = "returned" =>
        /\ items = inventory
        /\ Len(asked) = (Len(inventory) \div LimitOf(params)) + 1

\* C23: against a server that answers offset/limit with the items at
\* offset .. offset+limit-1, paginate asks for the offsets 1, 1+limit, ...
\* in order, stops at the first empty or short page, returns all N items
\* once in server order (also for N = 0 and N a multiple of limit), and
\* leaves the caller's params unchanged.
C23_PaginateReturnsAll ==
    /\ [](PagesInOrder /\ AllItemsOnce)
    /\ [][params' = params]_vars

\* four items in pages of two: two full pages and the empty third one
C23_Witness ==
    /\ pc = "returned"
    /\ Len(inventory) = 4
    /\ <<"limit", 2>> \in params.map
    /\ <<"family", "Switches">> \in params.map
    /\ Len(asked) = 3
    /\ items = <<"d3", "d1", "d7", "d2">>

-----------------------------------------------------------------------------
(* config_drift_process.py: SNAPSHOT & DIFF for one device                 *)

\* the runs of the script, and the seconds of local time they fall into
MaxRuns == 3
MaxStamp == 3

\* the running configurations the controller sends
Configs == {<<"a","\n">>, <<"a","\r","\n">>, <<"b","\n">>}

\* f.write(cfg) of a file opened with "w": "\n" becomes os.linesep, which
\* is "\n" where the script runs
WriteText(s) == s

RECURSIVE ReadText(_)
\* f.read() of a file opened with "r": universal newlines, "\r\n" and "\r"
\* are read as "\n"
ReadText(s) ==
    IF s = <<>> THEN <<>>
    ELSE IF s[1] = "\r"
         THEN <<"\n">> \o ReadText(SliceFrom(s, IF Len(s) > 1 /\ s[2] = "\n" THEN 2 ELSE 1))
         ELSE <<s[1]>> \o ReadText(SliceFrom(s, 1))

RECURSIVE splitlines_keepends(_)
\* str.splitlines(keepends=True)
splitlines_keepends(s) ==
    IF s = <<>> THEN <<>>
    ELSE LET i == LineEnd(s)
             j == IF i < Len(s) /\ s[i] = "\r" /\ s[i + 1] = "\n" THEN i + 1 ELSE i
         IN  IF i > Len(s) THEN <<s>>
             ELSE <<SliceTo(s, j)>> \o splitlines_keepends(SliceFrom(s, j))

\* "".join(difflib.unified_diff(a, b, ...)): nothing for equal line lists,
\* otherwise the two header lines and the hunks (left out here)
unified_diff(a, b) == IF a = b THEN <<>> ELSE <<"-","-","-"," ","p","r","e","v","i","o","u","s","\n","+","+","+"," ","c","u","r","r","e","n","t","\n">>

\* the stamps of sorted([p for p in os.listdir(dev_dir) if p.endswith(".cfg")]);
\* the names have one width, so their order is the order of the stamps
Snaps(dir) == {st \in DOMAIN dir : dir[st] # None}
Largest(S) == CHOOSE x \in S : \A y \in S : y <= x
\* snaps[-2]
SecondLast(dir) == Largest(Snaps(dir) \ {Largest(Snaps(dir))})

\* the status of a run that has written cfg into dir
StatusOf(dir, cfg) ==
    IF Cardinality(Snaps(dir)) >= 2
    THEN LET old == ReadText(dir[SecondLast(dir)])
             diff_txt == unified_diff(splitlines_keepends(old), splitlines_keepends(cfg))
         IN  IF strip(diff_txt) # <<>> THEN "DRIFT" ELSE "NO_CHANGE"
    ELSE "BASELINED"

InitDrift ==
    /\ script = "config_drift_process"
    /\ pc = "run"
    /\ snapshots = [st \in 1..MaxStamp |-> None]
    /\ diffs = [st \in 1..MaxStamp |-> None]
    /\ printed = <<>>
    /\ BesideDriftIdle

\* one run for the device: stamp is the local time of the run, which the
\* system clock may repeat or set back; fetch, write the snapshot, diff
DriftRun ==
    /\ pc = "run"
    /\ Len(printed) < MaxRuns
    /\ \E stamp \in 1..MaxStamp, cfg \in Configs :
           LET dir == [snapshots EXCEPT ![stamp] = WriteText(cfg)]
               status == StatusOf(dir, cfg)
           IN  /\ snapshots' = dir
               /\ diffs' = IF status = "BASELINED" THEN diffs
                           ELSE [diffs EXCEPT ![stamp] =
                                    unified_diff(
                                        splitlines_keepends(ReadText(dir[SecondLast(dir)])),
                                        splitlines_keepends(cfg))]
               /\ printed' = Append(printed,
                                    [stamp |-> stamp, cfg |-> cfg, status |-> status])
    /\ UNCHANGED <<script, pc, besideDrift>>

NextDrift == DriftRun

SpecDrift == InitDrift /\ [][NextDrift]_vars

\* C24: over any sequence of runs for a device a run prints BASELINED
\* exactly when no earlier snapshot exists, NO_CHANGE exactly when the
\* configuration it fetched equals the snapshot the run before it wrote,
\* DRIFT exactly when it differs; and the snapshot of an earlier run is
\* never modified or deleted.
C24_StatusAgainstPreviousRun ==
    /\ \A k \in 1..Len(printed) :
           /\ (printed[k].status = "BASELINED") = (k = 1)
           /\ k > 1 => /\ (printed[k].status = "NO_CHANGE")
                            = (printed[k].cfg = printed[k - 1].cfg)
                       /\ (printed[k].status = "DRIFT")
                            = (printed[k].cfg # printed[k - 1].cfg)
    /\ \A k \in 1..Len(printed) : snapshots[printed[k].stamp] = printed[k].cfg

-----------------------------------------------------------------------------
(* wait_for_file of ap_hunter_dnac.py                                      *)

\* timeout=300, poll=3: the model takes timeout from 0..MaxTimeout
poll == 3

\* r.json().get("response", {}) of a task.  progress is missing ("none"),
\* the empty str ("empty"), a str that is no JSON ("text"), the JSON of a
\* list ("list"), the JSON of an object ("object") or an object itself
\* ("dict"); fileId and fileid are the values of these keys in the object,
\* "null" when the key is missing
FileTaskRecords ==
    [fetched : {TRUE}, isError : {"false", "true"},
     kind : {"none", "empty", "text", "list"}, fileId : {"null"}, fileid : {"null"}]
    \cup [fetched : {TRUE}, isError : {"false", "true"}, kind : {"object", "dict"},
          fileId : {"null", "\"\"", "f1"}, fileid : {"null", "f2"}]

\* file_id = prog_json.get("fileId") or prog_json.get("fileid"), "null"
\* where the code does not get that far
FileIdOf(resp) ==
    IF resp.kind \in {"none", "empty"} THEN "null"
    ELSE IF resp.kind \in {"text", "list"} THEN "null"
    ELSE IF resp.kind = "dict" /\ resp.fileId = "null" /\ resp.fileid = "null" THEN "null"
    ELSE IF Truthy(resp.fileId) THEN resp.fileId ELSE resp.fileid

\* the test that takes the key for the value
HasFileIdKey(resp) == resp.kind \in {"object", "dict"}

\* if file_id: return file_id
HasFileId(resp) == Truthy(FileIdOf(resp))

InitWaitFile ==
    /\ script = "ap_hunter_dnac"
    /\ pc = "while"
    /\ clock = 0
    /\ t0 = 0
    /\ timeout_s \in 0..MaxTimeout
    /\ last = NoRecord
    /\ returned = NoRecord
    /\ raised = ""
    /\ gets = 0
    /\ BesideWaitIdle

\* while time.time() < deadline, and the raise behind the loop
WaitForFileHead ==
    /\ pc = "while"
    /\ IF clock < t0 + timeout_s
       THEN pc' = "get" /\ raised' = raised
       ELSE pc' = "raised" /\ raised' = "TimeoutError"
    /\ UNCHANGED <<script, clock, t0, timeout_s, last, returned, gets, besideWait>>

\* SESSION.get answers with a task: return its fileId or go to sleep
WaitForFileGet ==
    /\ pc = "get"
    /\ \E resp \in FileTaskRecords, d \in 0..MaxLatency :
           /\ clock' = clock + d
           /\ last' = resp
           /\ IF HasFileId(resp)
              THEN pc' = "returned" /\ returned' = [fetched |-> TRUE, file_id |-> FileIdOf(resp)]
              ELSE pc' = "sleep" /\ returned' = returned
    /\ gets' = gets + 1
    /\ UNCHANGED <<script, t0, timeout_s, raised, besideWait>>

\* r.raise_for_status() raises
WaitForFileGetFails ==
    /\ pc = "get"
    /\ \E d \in 0..MaxLatency : clock' = clock + d
    /\ gets' = gets + 1
    /\ raised' = "HTTPError"
    /\ pc' = "raised"
    /\ UNCHANGED <<script, t0, timeout_s, last, returned, besideWait>>

\* time.sleep(poll)
WaitForFileSleep ==
    /\ pc = "sleep"
    /\ clock' = clock + poll
    /\ pc' = "while"
    /\ UNCHANGED <<script, t0, timeout_s, last, returned, raised, gets, besideWait>>

NextWaitFile ==
    \/ WaitForFileHead
    \/ WaitForFileGet
    \/ WaitForFileGetFails
    \/ WaitForFileSleep

\* the interpreter goes on with the call as long as it has a step to take
SpecWaitFile == InitWaitFile /\ [][NextWaitFile]_vars /\ WF_vars(NextWaitFile)

\* the task record holds a fileId that is not empty
ReportsFileId(resp) ==
    /\ resp.kind \in {"object", "dict"}
    /\ resp.fileId = "f1" \/ resp.fileid = "f2"

WaitFileSafe ==
    /\ pc = "returned" =>
           /\ ReportsFileId(last)
           /\ returned.file_id \in {last.fileId, last.fileid}
           /\ returned.file_id \in {"f1", "f2"}
    /\ pc # "returned" => returned = NoRecord
    /\ raised = "TimeoutError" => pc = "raised" /\ clock >= t0 + timeout_s
    /\ (pc = "raised") = (raised # "")

\* a record without a fileId, isError or not, sends the loop to sleep for
\* poll seconds and back to the test of the deadline
ErrorTaskKeepsPolling ==
    /\ (pc = "get" /\ raised' = "" /\ ~ReportsFileId(last')) => pc' = "sleep"
    /\ pc = "sleep" => pc' = "while" /\ clock' = clock + poll

\* C25: wait_for_file returns only a non-empty fileId read from the task's
\* progress; a task that reports isError without a fileId, or whose progress
\* is no JSON object, is polled on like a running task, and TimeoutError is
\* raised at the deadline, never earlier; the call ends.
C25_WaitForFileOnlyFileId ==
    /\ []WaitFileSafe
    /\ [][ErrorTaskKeepsPolling]_vars
    /\ <>(pc \in {"returned", "raised"})

\* a failed task without fileId was polled until the deadline had passed
C25_Witness ==
    /\ script = "ap_hunter_dnac"
    /\ pc = "raised"
    /\ raised = "TimeoutError"
    /\ gets = 2
    /\ last.isError = "true"
    /\ last.kind = "text"
    /\ clock >= t0 + timeout_s

-----------------------------------------------------------------------------
(* chunk_list and the batch loop of main in ap_hunter_dnac.py              *)

\* the devices of a run at most, and the largest --batch-size
MaxIds == 4
MaxBatchSize == 3

\* the ids of the devices in the order of the hosts file
DeviceIdSeq == <<"u3", "u1", "u2", "u5", "u4", "u6">>

\* devmap.get(dev_id, dev_id): the hostname of an id
HostOf(id) ==
    CASE id = "u1" -> <<"s","w","1">> [] id = "u2" -> <<"s","w","2">> [] id = "u3" -> <<"s","w","1","0">>
      [] id = "u4" -> <<"s","w","4">> [] id = "u5" -> <<"s","w","5">> [] id = "u6" -> <<"s","w","6">>

\* sorted(poe_on - lldp_ports) for the texts the device answers
SuspectsOfId(id) ==
    CASE id = "u1" -> << <<"G","i","1","/","0","/","2">> >>
      [] id = "u3" -> << <<"G","i","1","/","0","/","1","0">>, <<"G","i","1","/","0","/","2">> >>
      [] OTHER -> <<>>

RECURSIVE ChunksFrom(_, _, _)
\* for i in range(i, len(lst), n): yield lst[i:i + n]
ChunksFrom(lst, n, i) ==
    IF i >= Len(lst) THEN <<>>
    ELSE <<SubSeq(lst, i + 1, Min(Len(lst), i + n))>> \o ChunksFrom(lst, n, i + n)

\* the chunks without a last one that is shorter than n
chunk_list_full_only(lst, n) ==
    SelectSeq(ChunksFrom(lst, n, 0), LAMBDA c : Len(c) = n)

\* chunk_list(lst, n), as the list of what it yields
chunk_list(lst, n) == ChunksFrom(lst, n, 0)

\* ceil(len(device_ids) / args.batch_size)
Ceil(a, b) == IF a % b = 0 THEN a \div b ELSE (a \div b) + 1
total_batches == Ceil(Len(device_ids), batch_size)

\* what the three calls of a batch can meet
RunnerOutcomes == {"ok", "HTTPError", "RuntimeError"}
WaitOutcomes == {"ok", "TimeoutError", "HTTPError"}
FileOutcomes == {"ok", "HTTPError", "OSError"}

\* a loop that goes on with the next batch behind an exception
OnBatchErrorContinue(e) == "batch"

\* no try around the loop body: an exception leaves main
OnBatchError(e) == "raised"

\* the three files of a host
HostFiles(id) ==
    {FileOf(HostOf(id), "_poe_on.txt"), FileOf(HostOf(id), "_lldp_local.txt"),
     FileOf(HostOf(id), "_suspects.csv")}

RECURSIVE PairsOf(_)
\* what the items of a batch append to combined
PairsOf(batch) ==
    IF batch = <<>> THEN <<>>
    ELSE [i \in 1..Len(SuspectsOfId(Head(batch))) |->
              <<HostOf(Head(batch)), SuspectsOfId(Head(batch))[i]>>]
         \o PairsOf(Tail(batch))

InitBatch ==
    /\ script = "ap_hunter_dnac"
    /\ pc = "batch"
    /\ \E k \in 1..MaxIds : device_ids = SubSeq(DeviceIdSeq, 1, k)
    /\ batch_size \in 1..MaxBatchSize
    /\ batch_index = 0
    /\ submitted = <<>>
    /\ files = {}
    /\ combined = <<>>
    /\ combined_csv = NoFile
    /\ raised = ""
    /\ BesideBatchIdle

\* the batch under way
Batch == chunk_list(device_ids, batch_size)[batch_index]

\* the next batch of the for loop goes to command_runner
BatchSubmit ==
    /\ pc = "batch"
    /\ batch_index < Len(chunk_list(device_ids, batch_size))
    /\ batch_index' = batch_index + 1
    /\ submitted' = Append(submitted, chunk_list(device_ids, batch_size)[batch_index + 1])
    /\ \E o \in RunnerOutcomes :
           IF o = "ok" THEN pc' = "wait" /\ raised' = raised
           ELSE pc' = OnBatchError(o) /\ raised' = o
    /\ UNCHANGED <<script, device_ids, batch_size, files, combined, combined_csv,
                   besideBatch>>

\* wait_for_file
BatchWait ==
    /\ pc = "wait"
    /\ \E o \in WaitOutcomes :
           IF o = "ok" THEN pc' = "file" /\ raised' = raised
           ELSE pc' = OnBatchError(o) /\ raised' = o
    /\ UNCHANGED <<script, batchVars, files, combined, combined_csv, besideBatch>>

\* get_file_json and the loop over its items: the files of every host and
\* its suspects; an exception at an item keeps what the items before wrote
BatchResults ==
    /\ pc = "file"
    /\ \E o \in FileOutcomes :
           CASE o = "ok" ->
                    /\ files' = files \cup UNION {HostFiles(Batch[i]) : i \in 1..Len(Batch)}
                    /\ combined' = combined \o PairsOf(Batch)
                    /\ pc' = "batch"
                    /\ raised' = raised
             [] o = "HTTPError" ->
                    /\ UNCHANGED <<files, combined>>
                    /\ pc' = OnBatchError(o)
                    /\ raised' = o
             [] o = "OSError" ->
                    \E k \in 1..Len(Batch) :
                        /\ files' = files \cup UNION {HostFiles(Batch[i]) : i \in 1..(k - 1)}
                        /\ combined' = combined \o PairsOf(SubSeq(Batch, 1, k - 1))
                        /\ pc' = OnBatchError(o)
                        /\ raised' = o
    /\ UNCHANGED <<script, batchVars, combined_csv, besideBatch>>

\* behind the loop: combined_all_suspects.csv
BatchCombined ==
    /\ pc = "batch"
    /\ batch_index = Len(chunk_list(device_ids, batch_size))
    /\ combined_csv' = [written |-> TRUE, rows |-> CombinedRows(combined)]
    /\ pc' = "done"
    /\ UNCHANGED <<script, batchVars, files, combined, raised, besideBatch>>

NextBatch == BatchSubmit \/ BatchWait \/ BatchResults \/ BatchCombined

SpecBatch == InitBatch /\ [][NextBatch]_vars


\* the files of the batches 1..k
FilesOfBatches(k) ==
    UNION {UNION {HostFiles(chunk_list(device_ids, batch_size)[b][i]) :
                      i \in 1..Len(chunk_list(device_ids, batch_size)[b])} : b \in 1..k}

CombinedOnlyAfterAllBatches ==
    /\ combined_csv.written =>
           /\ pc = "done"
           /\ raised = ""
           /\ batch_index = Len(chunk_list(device_ids, batch_size))
           /\ submitted = chunk_list(device_ids, batch_size)
           /\ files = FilesOfBatches(batch_index)
    /\ raised # "" =>
           /\ pc = "raised"
           /\ ~combined_csv.written
           /\ batch_index >= 1
           /\ FilesOfBatches(batch_index - 1) \subseteq files
    /\ pc = "done" => combined_csv.written

\* behind an exception main takes no step, and no step removes a file
NothingAfterException == raised = "" /\ files \subseteq files'

\* C26: combined_all_suspects.csv is written only after every batch has
\* completed; an exception in a batch ends the run before the combined file
\* is written and before a later batch is submitted, and the per-switch
\* files of the batches already processed stay.
C26_CombinedOnlyAfterAllBatches ==
    /\ []CombinedOnlyAfterAllBatches
    /\ [][NothingAfterException]_vars

\* the second batch timed out: the files of the first are there, the
\* combined file is not, the third batch was never submitted
C26_Witness ==
    /\ pc = "raised"
    /\ raised = "TimeoutError"
    /\ Len(device_ids) = 3
    /\ batch_size = 1
    /\ batch_index = 2
    /\ Len(submitted) = 2
    /\ HostFiles("u3") \subseteq files
    /\ ~combined_csv.written

RECURSIVE Flatten(_)
Flatten(ll) == IF ll = <<>> THEN <<>> ELSE Head(ll) \o Flatten(Tail(ll))

\* C28: for a batch size n >= 1 the batches of chunk_list are consecutive,
\* their concatenation is the list, every batch holds 1..n ids and only the
\* last may hold fewer than n, their number is total_batches, and every
\* list position is submitted in exactly one batch, in list order.
C28_ChunksCoverListOnce ==
    LET b == chunk_list(device_ids, batch_size)
    IN  (script = "ap_hunter_dnac" /\ batch_size >= 1) =>
            /\ Flatten(b) = device_ids
            /\ \A k \in 1..Len(b) : Len(b[k]) >= 1 /\ Len(b[k]) <= batch_size
            /\ \A k \in 1..(Len(b) - 1) : Len(b[k]) = batch_size
            /\ Len(b) = total_batches
            /\ submitted = SubSeq(b, 1, batch_index)
            /\ pc = "done" => Flatten(submitted) = device_ids

\* four devices in batches of three: a full batch and a last one of one
C28_Witness ==
    /\ pc = "done"
    /\ Len(device_ids) = 4
    /\ batch_size = 3
    /\ total_batches = 2
    /\ submitted = << <<"u3", "u1", "u2">>, <<"u5">> >>

-----------------------------------------------------------------------------
(* poll_command_result of cc_command_runner.py                             *)

POLL_INTERVAL_SEC == 2
POLL_TIMEOUT_SEC == 120

\* the part of a URL that marks a read-request, and the path built for an id
ReadRequestMark == <<"/","n","e","t","w","o","r","k","-","d","e","v","i","c","e","-","p","o","l","l","e","r","/","c","l","i","/","r","e","a","d","-","r","e","q","u","e","s","t","/">>
ReadRequestPath == <<"/","d","n","a","/","i","n","t","e","n","t","/","a","p","i","/","v","1","/","n","e","t","w","o","r","k","-","d","e","v","i","c","e","-","p","o","l","l","e","r","/","c","l","i","/","r","e","a","d","-","r","e","q","u","e","s","t","/">>

\* submit_resp.get("response"): no dict (dict = FALSE), or a dict with the
\* values of url, id and taskId, None where the key is missing
SubmitResps ==
    {[fetched |-> TRUE, dict |-> FALSE, url |-> None, id |-> None, taskId |-> None]}
    \cup [fetched : {TRUE}, dict : {TRUE},
          url : {None, <<>>, <<"/","d","n","a","/","i","n","t","e","n","t","/","a","p","i","/","v","1","/","t","a","s","k","/","t","1">>, ReadRequestPath \o <<"r","1">>},
          id : {None, <<"r","2">>},
          taskId : {None, <<"t","1">>}]

\* read_url with the taskId as a last resort
ReadUrlOrTask(resp) ==
    IF ~resp.dict THEN None
    ELSE IF ~Falsy(resp.url) /\ Contains(resp.url, ReadRequestMark) THEN resp.url
    ELSE IF ~Falsy(resp.id) THEN ReadRequestPath \o resp.id
    ELSE IF ~Falsy(resp.taskId) THEN <<"/","d","n","a","/","i","n","t","e","n","t","/","a","p","i","/","v","1","/","t","a","s","k","/">> \o resp.taskId
    ELSE None

\* read_url as lines 113-119 set it
ReadUrl(resp) ==
    IF ~resp.dict THEN None
    ELSE IF ~Falsy(resp.url) /\ Contains(resp.url, ReadRequestMark) THEN resp.url
    ELSE IF ~Falsy(resp.id) THEN ReadRequestPath \o resp.id
    ELSE None

\* the keys that make an answer a result
ResultKeys == {"status", "deviceId", "commandResponses", "response"}

\* the answers to GET read_url: r.ok and the keys of r.json() or {}
ReadAnswers ==
    [fetched : {TRUE}, ok : BOOLEAN,
     keys : {{}, {"message"}, {"commandResponses"}, {"message", "status"}}]

\* if r.ok: j = r.json() or {}; if any(k in j for k in (...)): return j
IsResult(r) == r.ok /\ r.keys \cap ResultKeys # {}

InitRunner ==
    /\ script = "cc_command_runner"
    /\ pc = "begin"
    /\ submit_resp \in SubmitResps
    /\ read_url = None
    /\ clock \in {0, 1}
    /\ t0 = 0
    /\ timeout_s = POLL_TIMEOUT_SEC
    /\ last = NoRecord
    /\ returned = NoRecord
    /\ raised = ""
    /\ gets = 0
    /\ BesideRunnerIdle

\* lines 112-121: read_url from the submit response, start = time.time()
PollResultBegin ==
    /\ pc = "begin"
    /\ read_url' = ReadUrl(submit_resp)
    /\ t0' = clock
    /\ pc' = "while"
    /\ UNCHANGED <<script, submit_resp, clock, timeout_s, last, returned, raised, gets,
                   besideRunner>>

\* while time.time() - start < POLL_TIMEOUT_SEC, "if read_url", and die
\* behind the loop
PollResultHead ==
    /\ pc = "while"
    /\ IF clock - t0 < POLL_TIMEOUT_SEC
       THEN pc' = (IF read_url # None THEN "get" ELSE "sleep") /\ raised' = raised
       ELSE pc' = "raised" /\ raised' = "SystemExit"
    /\ UNCHANGED <<script, runnerVars, clock, t0, timeout_s, last, returned, gets,
                   besideRunner>>

\* requests.get(f"{base}{read_url}") answers; the time of the loop is
\* the time it sleeps
PollResultGet ==
    /\ pc = "get"
    /\ \E r \in ReadAnswers :
           /\ last' = r
           /\ IF IsResult(r)
              THEN pc' = "returned" /\ returned' = r
              ELSE pc' = "sleep" /\ returned' = returned
    /\ gets' = gets + 1
    /\ UNCHANGED <<script, runnerVars, clock, t0, timeout_s, raised, besideRunner>>

\* requests.get raises: no connection, or no answer within REQUEST_TIMEOUT
PollResultGetFails ==
    /\ pc = "get"
    /\ gets' = gets + 1
    /\ raised' = "RequestException"
    /\ pc' = "raised"
    /\ UNCHANGED <<script, runnerVars, clock, t0, timeout_s, last, returned, besideRunner>>

\* time.sleep(POLL_INTERVAL_SEC)
PollResultSleep ==
    /\ pc = "sleep"
    /\ clock' = clock + POLL_INTERVAL_SEC
    /\ pc' = "while"
    /\ UNCHANGED <<script, runnerVars, t0, timeout_s, last, returned, raised, gets,
                   besideRunner>>

NextRunner ==
    \/ PollResultBegin
    \/ PollResultHead
    \/ PollResultGet
    \/ PollResultGetFails
    \/ PollResultSleep

\* the interpreter goes on with the call as long as it has a step to take
SpecRunner == InitRunner /\ [][NextRunner]_vars /\ WF_vars(NextRunner)

\* the submit response names a read-request url, or an id
NamesReadRequest(resp) ==
    /\ resp.dict
    /\ \/ /\ resp.url # None
          /\ \E i \in 1..(Len(resp.url) - Len(ReadRequestMark) + 1) :
                 SubSeq(resp.url, i, i + Len(ReadRequestMark) - 1) = ReadRequestMark
       \/ resp.id \notin {None, <<>>}

PollResultSafe ==
    /\ pc = "returned" =>
           /\ read_url # None
           /\ read_url \in {submit_resp.url, ReadRequestPath \o submit_resp.id}
           /\ gets >= 1
           /\ returned = last
           /\ last.ok
    /\ pc # "returned" => returned = NoRecord
    /\ raised = "SystemExit" => pc = "raised" /\ clock - t0 >= POLL_TIMEOUT_SEC
    /\ ~NamesReadRequest(submit_resp) => gets = 0 /\ pc # "returned" /\ pc # "get"
    /\ (pc = "raised") = (raised # "")

\* C27: poll_command_result returns only what it fetched from the
\* read-request URL derived from the submit response; when that response
\* carries neither a read-request url nor an id it sends no request, never
\* returns a result, and ends through the timeout path after POLL_TIMEOUT_SEC.
C27_PollOnlyReadRequest ==
    /\ []PollResultSafe
    /\ [](~NamesReadRequest(submit_resp) => <>(raised = "SystemExit"))
    /\ <>(pc \in {"returned", "raised"})

\* a submit response with only a taskId: sixty sleeps, no request, die
C27_Witness ==
    /\ script = "cc_command_runner"
    /\ submit_resp.dict
    /\ submit_resp.url = None
    /\ submit_resp.id = None
    /\ submit_resp.taskId # None
    /\ raised = "SystemExit"
    /\ gets = 0
    /\ clock = t0 + POLL_TIMEOUT_SEC
    /\ t0 = 1

-----------------------------------------------------------------------------
(* CatalystCenter.poll_task of claim_site.py                               *)

\* interval: int=5
interval == 5

\* get_task(task_id): isError and endTime at the top of the answer and in
\* its "response", as JSON values, null where the key is missing
SiteTaskRecords ==
    [fetched : {TRUE},
     isError : {"null", "false", "true"}, endTime : {"null", "1718000000"},
     r_isError : {"null", "true"}, r_endTime : {"null", "1718000000"}]

\* is_err = last.get("isError") or last.get("response", {}).get("isError")
IsErr(rec) == Truthy(rec.isError) \/ Truthy(rec.r_isError)
\* last.get("endTime") or last.get("response", {}).get("endTime")
HasEndTime(rec) == Truthy(rec.endTime) \/ Truthy(rec.r_endTime)

\* the tests with the completion test first
AfterPollEndFirst(rec, elapsed, limit_s) ==
    IF HasEndTime(rec) THEN "returned"
    ELSE IF IsErr(rec) THEN "error"
    ELSE IF elapsed > limit_s THEN "timeout"
    ELSE "sleep"

\* lines 112-119: what follows a poll
AfterPoll(rec, elapsed, limit_s) ==
    IF IsErr(rec) THEN "error"
    ELSE IF HasEndTime(rec) THEN "returned"
    ELSE IF elapsed > limit_s THEN "timeout"
    ELSE "sleep"

InitPollTask ==
    /\ script = "claim_site"
    /\ pc = "get"
    /\ clock = 0
    /\ t0 = 0
    /\ timeout_s \in 0..MaxTimeout
    /\ last = NoRecord
    /\ returned = NoRecord
    /\ raised = ""
    /\ gets = 0
    /\ BesideWaitIdle

\* last = self.get_task(task_id) and the three tests behind it
PollTaskGet ==
    /\ pc = "get"
    /\ \E rec \in SiteTaskRecords, d \in 0..MaxLatency :
           LET to == AfterPoll(rec, clock + d - t0, timeout_s)
           IN  /\ clock' = clock + d
               /\ last' = rec
               /\ pc' = IF to \in {"error", "timeout"} THEN "raised" ELSE to
               /\ returned' = IF to = "returned" THEN rec ELSE returned
               /\ raised' = CASE to = "error" -> "SystemExit: Task error"
                              [] to = "timeout" -> "SystemExit: Task timeout"
                              [] OTHER -> raised
    /\ gets' = gets + 1
    /\ UNCHANGED <<script, t0, timeout_s, besideWait>>

\* get_task raises: r.raise_for_status()
PollTaskGetFails ==
    /\ pc = "get"
    /\ \E d \in 0..MaxLatency : clock' = clock + d
    /\ gets' = gets + 1
    /\ raised' = "HTTPError"
    /\ pc' = "raised"
    /\ UNCHANGED <<script, t0, timeout_s, last, returned, besideWait>>

\* time.sleep(interval)
PollTaskSleep ==
    /\ pc = "sleep"
    /\ clock' = clock + interval
    /\ pc' = "get"
    /\ UNCHANGED <<script, t0, timeout_s, last, returned, raised, gets, besideWait>>

NextPollTask == PollTaskGet \/ PollTaskGetFails \/ PollTaskSleep

SpecPollTask == InitPollTask /\ [][NextPollTask]_vars

\* C29: poll_task polls at least once, also with timeout_s = 0; it never
\* returns a record that reports isError, also when the record has an
\* endTime; it returns only a record with endTime set; the timeout exit is
\* taken at the first poll whose tests run after timeout_s has elapsed.
C29_PollTaskExits ==
    /\ pc \in {"returned", "raised"} => gets >= 1
    /\ pc = "returned" =>
           /\ returned = last
           /\ returned.isError # "true" /\ returned.r_isError # "true"
           /\ returned.endTime # "null" \/ returned.r_endTime # "null"
    /\ pc # "returned" => returned = NoRecord
    /\ (last.fetched /\ (last.isError = "true" \/ last.r_isError = "true")) =>
           pc = "raised" /\ raised \in {"SystemExit: Task error", "HTTPError"}
    /\ raised = "SystemExit: Task timeout" => pc = "raised" /\ clock - t0 > timeout_s
    /\ pc = "sleep" => clock - t0 <= timeout_s
    /\ (pc = "raised") = (raised # "")

\* timeout_s = 0: one poll that took a second, then the timeout exit
C29_Witness ==
    /\ script = "claim_site"
    /\ timeout_s = 0
    /\ gets = 1
    /\ clock = 1
    /\ raised = "SystemExit: Task timeout"

====
